---- MODULE Spec2Model ----
(***************************************************************************)
(* Directory Listing API: the Path Guard (validatePath), the Listing       *)
(* Engine (listDirectory) and the Metadata Probe (getDirectoryMetadata) of *)
(* src/src/services/directoryService.ts, over a small POSIX filesystem.    *)
(*                                                                         *)
(* Strings are sequences of one-character strings, so that the substring   *)
(* tests, the lower-casing and the path algebra of the code are computed   *)
(* and not tabulated.                                                      *)
(***************************************************************************)
EXTENDS Integers, Sequences, FiniteSets, Bags, TLC

VARIABLES
  fs,            \* the filesystem: directory path -> children in readdir order
  removals,      \* how many children other processes have deleted
  pc,            \* where the request being served stands
  op,            \* "list" or "meta": the service function that was called
  req,           \* its arguments
  resolvedPath,  \* its local normalizedPath (path.resolve of the argument)
  pathStats,     \* the stats of resolvedPath
  fileNames,     \* the names readdir returned
  results,       \* the per-entry promises: pending or their value
  outcome,       \* the value returned or the error thrown
  fsCalls,       \* the access, stat and readdir calls made for the request,
                 \* each with the number of times it was made
  warnLog,       \* the entries logger.warn reported for the request
  clock,         \* the time new Date() gives, in milliseconds
  last,          \* the previous call of the caller and what it returned
  nodeEnv,       \* process.env.NODE_ENV of the server process
  \* the browser: the Angular DirectoryService and the DirectoryBrowser
  loadingSubject,      \* DirectoryService.loadingSubject.value
  currentPathSubject,  \* DirectoryService.currentPathSubject.value
  subscribed,          \* ngOnInit has run: the component follows the subjects
  currentPath,         \* DirectoryBrowser.currentPath
  currentPage,         \* DirectoryBrowser.currentPage
  directoryData,       \* DirectoryBrowser.directoryData
  loading,             \* DirectoryBrowser.loading
  requests,            \* the GET /list requests sent, in the order of sending
  toast                \* the notification shown last

browser == <<loadingSubject, currentPathSubject, subscribed, currentPath,
             currentPage, directoryData, loading, requests, toast>>

server == <<fs, removals, pc, op, req, resolvedPath, pathStats, fileNames,
            results, outcome, fsCalls, warnLog, clock, last, nodeEnv>>

vars == <<server, browser>>

----------------------------------------------------------------------------
(* Bounds of the model *)

\* largest page number a caller asks for
MaxPage == 3
\* largest page size a caller asks for
MaxLimit == 2
\* most children of the listed directory, in the unchanged-directory runs
MaxEntries == 3
\* most children the environment deletes while requests are being served
MaxRemovals == 2
\* the milliseconds the clock is followed for
MaxClock == 2

----------------------------------------------------------------------------
(* Strings *)

UpperChars == <<"A","B","C","D","E","F","G","H","I","J","K","L","M",
                "N","O","P","Q","R","S","T","U","V","W","X","Y","Z">>
LowerChars == <<"a","b","c","d","e","f","g","h","i","j","k","l","m",
                "n","o","p","q","r","s","t","u","v","w","x","y","z">>

\* the lower-case letter of each upper-case letter
LowerOf == [c \in {UpperChars[i] : i \in 1..26} |->
              LowerChars[CHOOSE i \in 1..26 : UpperChars[i] = c]]

\* the place of each lower-case letter in the alphabet
AlphabetIndex == [c \in {LowerChars[i] : i \in 1..26} |->
                    CHOOSE i \in 1..26 : LowerChars[i] = c]

\* String.prototype.toLowerCase, one character
LowerChar(c) == IF c \in DOMAIN LowerOf THEN LowerOf[c] ELSE c

\* String.prototype.toLowerCase
ToLowerCase(s) == [i \in 1..Len(s) |-> LowerChar(s[i])]

\* String.prototype.includes
Includes(s, sub) ==
  \/ Len(sub) = 0
  \/ \E i \in 0..(Len(s) - Len(sub)) :
       s[i + 1] = sub[1] /\ SubSeq(s, i + 1, i + Len(sub)) = sub

\* String.prototype.startsWith
StartsWith(s, pre) == Len(s) >= Len(pre) /\ SubSeq(s, 1, Len(pre)) = pre

----------------------------------------------------------------------------
(* Path algebra of Node's posix path module, as the service calls it *)

DotDot == <<".", ".">>
Dot == <<".">>
Sep == <<"/">>

\* s.split('/'): the segments between the separators
Split(s) ==
  LET seps   == SelectSeq([i \in 1..Len(s) |-> i], LAMBDA i : s[i] = "/")
      bounds == <<0>> \o seps \o <<Len(s) + 1>>
  IN  [k \in 1..(Len(bounds) - 1) |->
         SubSeq(s, bounds[k] + 1, bounds[k + 1] - 1)]

RECURSIVE JoinFrom(_, _)
JoinFrom(segs, i) ==
  IF i > Len(segs) THEN <<>>
  ELSE IF i = Len(segs) THEN segs[i]
  ELSE segs[i] \o Sep \o JoinFrom(segs, i + 1)

\* segs.join('/')
JoinSegs(segs) == JoinFrom(segs, 1)

RECURSIVE NormSegs(_, _, _, _)
\* normalizeString: '' and '.' segments vanish, '..' removes the segment
\* before it, is kept when nothing is left to remove and the path is
\* relative, and is dropped at the root of an absolute path
NormSegs(segs, i, res, allowAboveRoot) ==
  IF i > Len(segs) THEN res
  ELSE IF segs[i] = <<>> \/ segs[i] = Dot
       THEN NormSegs(segs, i + 1, res, allowAboveRoot)
  ELSE IF segs[i] = DotDot
       THEN IF Len(res) > 0 /\ res[Len(res)] # DotDot
            THEN NormSegs(segs, i + 1, SubSeq(res, 1, Len(res) - 1), allowAboveRoot)
            ELSE IF allowAboveRoot
                 THEN NormSegs(segs, i + 1, Append(res, DotDot), allowAboveRoot)
                 ELSE NormSegs(segs, i + 1, res, allowAboveRoot)
  ELSE NormSegs(segs, i + 1, Append(res, segs[i]), allowAboveRoot)

NormalizeString(p, allowAboveRoot) ==
  JoinSegs(NormSegs(Split(p), 1, <<>>, allowAboveRoot))

IsAbsolute(p) == Len(p) > 0 /\ p[1] = "/"

\* path.normalize
Normalize(p) ==
  IF Len(p) = 0 THEN Dot
  ELSE LET isAbs    == IsAbsolute(p)
           trailing == p[Len(p)] = "/"
           body     == NormalizeString(p, ~isAbs)
       IN  IF Len(body) = 0
           THEN IF isAbs THEN Sep ELSE IF trailing THEN <<".", "/">> ELSE Dot
           ELSE (IF isAbs THEN Sep ELSE <<>>) \o body
                \o (IF trailing THEN Sep ELSE <<>>)

\* process.cwd() of the server
Cwd == <<"/">>

\* path.resolve(p): p against the working directory, normalized, absolute,
\* without a trailing separator
Resolve(p) ==
  LET full == IF IsAbsolute(p) THEN p ELSE Cwd \o Sep \o p
      body == NormalizeString(full, FALSE)
  IN  Sep \o body

\* path.join(dir, name)
Join(dir, name) == Normalize(dir \o Sep \o name)

----------------------------------------------------------------------------
(* The filesystem: each directory maps to its children in readdir order *)

P_root   == <<"/">>
P_d      == <<"/", "d">>
P_etc    == <<"/", "e", "t", "c">>

N_a      == <<"a">>
N_b      == <<"b", ".", "T">>
N_hidden == <<".", "h">>
\* e with acute accent as the one character U+00E9, and as its canonically
\* equivalent decomposition e + combining accent U+0301: two different file
\* names
N_eNFC   == <<"U+00E9">>
N_eNFD   == <<"e", "U+0301">>
N_sub    == <<"$", "r", ".", "d">>

NoNode == [exists |-> FALSE]

Node(name, isDir, size, mtime, readable) ==
  [exists |-> TRUE, name |-> name, isDir |-> isDir, size |-> size,
   mtime |-> mtime, atime |-> mtime, birthtime |-> mtime,
   readable |-> readable, writable |-> FALSE,
   executable |-> isDir /\ readable]

\* the files that may be found in /d; directories report the size of their
\* own inode, as stat does
Population ==
  { Node(N_b,      FALSE, 10,   3, TRUE),
    Node(N_a,      FALSE, 5,    1, TRUE),
    Node(N_hidden, FALSE, 1,    1, TRUE),
    Node(N_eNFC,   FALSE, 5,    2, TRUE),
    Node(N_eNFD,   TRUE,  4096, 2, TRUE),
    Node(N_sub,    TRUE,  4096, 3, TRUE) }

RootChildren ==
  << Node(<<"d">>, TRUE, 4096, 1, TRUE),
     Node(<<"e", "t", "c">>, TRUE, 4096, 1, TRUE),
     Node(<<"f">>, FALSE, 7, 1, TRUE) >>

EtcChildren ==
  << Node(<<"p", "a", "s", "s", "w", "d">>, FALSE, 9, 1, TRUE),
     Node(<<"s", "h", "a", "d", "o", "w">>, FALSE, 9, 1, FALSE) >>

\* the filesystem whose directory /d has the children dirD
FsWith(dirD) ==
  (P_root :> RootChildren) @@ (P_etc :> EtcChildren) @@ (P_d :> dirD)

\* sequences of at most n distinct members of Population
DirsUpTo(n) ==
  { s \in UNION { [1..k -> Population] : k \in 0..n } :
      \A i, j \in 1..Len(s) : i # j => s[i].name # s[j].name }

\* the node an absolute path denotes, found as the entry named by the last
\* segment in the directory named by the other segments; NoNode when there
\* is none (ENOENT)
Lookup(fsv, p) ==
  IF p = P_root THEN Node(<<>>, TRUE, 4096, 1, TRUE)
  ELSE LET segs   == NormSegs(Split(p), 1, <<>>, FALSE)
           parent == Sep \o JoinSegs(SubSeq(segs, 1, Len(segs) - 1))
           base   == segs[Len(segs)]
           kids   == IF parent \in DOMAIN fsv THEN fsv[parent] ELSE <<>>
           found  == { i \in 1..Len(kids) : kids[i].name = base }
       IN  IF found # {} THEN kids[CHOOSE i \in found : TRUE] ELSE NoNode

\* fs.stat: the path is taken against the working directory
Stat(fsv, p) == Lookup(fsv, Resolve(p))

\* fs.access(p, R_OK) succeeds
AccessR(fsv, p) == LET stats == Stat(fsv, p) IN stats.exists /\ stats.readable

\* fs.readdir of an existing directory: the names, in enumeration order
Readdir(fsv, p) ==
  LET kids == fsv[Resolve(p)] IN [i \in 1..Len(kids) |-> kids[i].name]

IsDirNode(fsv, p) == LET stats == Stat(fsv, p) IN stats.exists /\ stats.isDir

----------------------------------------------------------------------------
(* Errors *)

\* statusCode of an error that createError did not make
NoStatus == 0

\* createError(message, statusCode)
CreateError(message, statusCode) ==
  [kind |-> "error", statusCode |-> statusCode, message |-> message]

\* the error a failing fs.stat or fs.readdir rejects with
RawFsError == [kind |-> "error", statusCode |-> NoStatus, message |-> "ENOENT"]

NoOutcome == [kind |-> "none"]

Ok(value) == [kind |-> "ok", value |-> value]

----------------------------------------------------------------------------
(* Path Guard *)

MAX_PATH_LENGTH == 4096

RESTRICTED_PATHS ==
  { <<"/","e","t","c","/","s","h","a","d","o","w">>,
    <<"/","e","t","c","/","p","a","s","s","w","d">>,
    <<"C",":","\\","W","i","n","d","o","w","s","\\","S","y","s","t","e","m",
      "3","2","\\","c","o","n","f","i","g">>,
    <<"C",":","\\","W","i","n","d","o","w","s","\\","S","y","s","t","e","m",
      "3","2","\\","d","r","i","v","e","r","s","\\","e","t","c">> }

IsRestricted(normalizedPath) ==
  LET lowerPath == ToLowerCase(normalizedPath) IN
  \E restrictedPath \in RESTRICTED_PATHS :
     Includes(lowerPath, ToLowerCase(restrictedPath))

\* ValidateSync refusing a path of MAX_PATH_LENGTH characters too
ValidateSync_LengthInclusive(dirPath) ==
  IF Len(dirPath) = 0 \/ Len(dirPath) >= MAX_PATH_LENGTH
  THEN CreateError("Invalid path length", 400)
  ELSE LET normalizedPath == Normalize(dirPath) IN
       IF Includes(normalizedPath, DotDot)
       THEN CreateError("Path traversal not allowed", 403)
       ELSE IF IsRestricted(normalizedPath)
       THEN CreateError("Access to this path is restricted", 403)
       ELSE NoOutcome

\* ValidateSync testing the deny-list before the traversal
ValidateSync_DenyListFirst(dirPath) ==
  IF Len(dirPath) = 0 \/ Len(dirPath) > MAX_PATH_LENGTH
  THEN CreateError("Invalid path length", 400)
  ELSE LET normalizedPath == Normalize(dirPath) IN
       IF IsRestricted(normalizedPath)
       THEN CreateError("Access to this path is restricted", 403)
       ELSE IF Includes(normalizedPath, DotDot)
       THEN CreateError("Path traversal not allowed", 403)
       ELSE NoOutcome

\* validatePath up to its await: the error thrown by the synchronous checks,
\* NoOutcome when the path goes on to the read-access probe
ValidateSync(dirPath) ==
  IF Len(dirPath) = 0 \/ Len(dirPath) > MAX_PATH_LENGTH
  THEN CreateError("Invalid path length", 400)
  ELSE LET normalizedPath == Normalize(dirPath) IN
       IF Includes(normalizedPath, DotDot)
       THEN CreateError("Path traversal not allowed", 403)
       ELSE IF IsRestricted(normalizedPath)
       THEN CreateError("Access to this path is restricted", 403)
       ELSE NoOutcome

\* NotFoundError with the status of a bad request
NotFoundError_BadRequest ==
  CreateError("Path does not exist or is not readable", 400)

\* the error of the read-access probe that ends validatePath
NotFoundError == CreateError("Path does not exist or is not readable", 404)

\* NotADirectoryError with the status of a missing path
NotADirectoryError_NotFound == CreateError("Path is not a directory", 404)

\* the error listDirectory throws when the stats are not those of a directory
NotADirectoryError == CreateError("Path is not a directory", 400)

\* validatePath as a whole, on an unchanging filesystem
ValidatePath(fsv, dirPath) ==
  LET thrown == ValidateSync(dirPath) IN
  IF thrown.kind = "error" THEN thrown
  ELSE IF ~AccessR(fsv, Normalize(dirPath)) THEN NotFoundError
  ELSE NoOutcome

----------------------------------------------------------------------------
(* String.prototype.localeCompare: the collation order, by levels *)

\* canonical decomposition of one character
DecomposeChar(c) == IF c = "U+00E9" THEN <<"e", "U+0301">> ELSE <<c>>

RECURSIVE DecomposeFrom(_, _)
DecomposeFrom(s, i) ==
  IF i > Len(s) THEN <<>> ELSE DecomposeChar(s[i]) \o DecomposeFrom(s, i + 1)

Decompose(s) == DecomposeFrom(s, 1)

IsAccent(c) == c = "U+0301"

\* primary weight: punctuation, then symbols, then letters in alphabet order
PrimaryWeight(c) ==
  IF c = "." THEN 1
  ELSE IF c = "$" THEN 2
  ELSE IF LowerChar(c) \in DOMAIN AlphabetIndex
       THEN 10 + AlphabetIndex[LowerChar(c)]
       ELSE 3

\* positions of the base (non-combining) characters of a decomposed string
BasePositions(d) == SelectSeq([i \in 1..Len(d) |-> i], LAMBDA i : ~IsAccent(d[i]))

PrimaryKey(s) ==
  LET d == Decompose(s) pos == BasePositions(d)
  IN  [k \in 1..Len(pos) |-> PrimaryWeight(d[pos[k]])]

SecondaryKey(s) ==
  LET d == Decompose(s) pos == BasePositions(d)
  IN  [k \in 1..Len(pos) |->
         IF pos[k] < Len(d) /\ IsAccent(d[pos[k] + 1]) THEN 1 ELSE 0]

TertiaryKey(s) ==
  LET d == Decompose(s) pos == BasePositions(d)
  IN  [k \in 1..Len(pos) |-> IF LowerChar(d[pos[k]]) # d[pos[k]] THEN 1 ELSE 0]

RECURSIVE CompareKeys(_, _, _)
\* lexicographic comparison of two weight sequences: -1, 0 or 1
CompareKeys(x, y, i) ==
  IF i > Len(x) /\ i > Len(y) THEN 0
  ELSE IF i > Len(x) THEN -1
  ELSE IF i > Len(y) THEN 1
  ELSE IF x[i] < y[i] THEN -1
  ELSE IF x[i] > y[i] THEN 1
  ELSE CompareKeys(x, y, i + 1)

LocaleCompare(x, y) ==
  LET primary   == CompareKeys(PrimaryKey(x), PrimaryKey(y), 1)
      secondary == CompareKeys(SecondaryKey(x), SecondaryKey(y), 1)
  IN  IF primary # 0 THEN primary
      ELSE IF secondary # 0 THEN secondary
      ELSE CompareKeys(TertiaryKey(x), TertiaryKey(y), 1)

\* the two values of FileInfo.type as strings, for a.type.localeCompare(b.type)
TypeString(type) ==
  IF type = "directory" THEN <<"d","i","r","e","c","t","o","r","y">>
  ELSE <<"f","i","l","e">>

----------------------------------------------------------------------------
(* Dates: moment(date).toISOString() and new Date(iso).getTime() *)

\* the ISO-8601 text of a timestamp in milliseconds
ToISOString(ms) == [iso |-> ms]

\* the empty string, where a timestamp text is expected
EmptyString == [iso |-> -1]

\* new Date(text).getTime()
GetTime(text) == text.iso

----------------------------------------------------------------------------
(* Listing Engine: per-entry resolution *)

\* process.platform
Platform == "linux"

\* IsHiddenName without the test of the platform
IsHiddenName_AnyPlatform(fileName) ==
  StartsWith(fileName, <<".">>) \/ StartsWith(fileName, <<"$">>)

IsHiddenName(fileName) ==
  StartsWith(fileName, <<".">>)
  \/ (Platform = "win32" /\ StartsWith(fileName, <<"$">>))

\* path.extname of a name without separators: from its last '.' on, empty
\* when there is none, when nothing stands before it, and for '..'
ExtName(fileName) ==
  LET dots == {i \in 1..Len(fileName) : fileName[i] = "."} IN
  IF dots = {} THEN <<>>
  ELSE LET startDot == CHOOSE i \in dots : \A j \in dots : j <= i
       IN  IF startDot = 1 \/ fileName = DotDot THEN <<>>
           ELSE SubSeq(fileName, startDot, Len(fileName))

\* CreateFileInfo with the size and the extension of a directory taken
\* like those of a file
CreateFileInfo_DirectoryAsFile(filePath, fileName, stats) ==
  [name         |-> fileName,
   path         |-> filePath,
   size         |-> stats.size,
   extension    |-> ToLowerCase(ExtName(fileName)),
   type         |-> IF stats.isDir THEN "directory" ELSE "file",
   createdDate  |-> ToISOString(stats.birthtime),
   modifiedDate |-> ToISOString(stats.mtime),
   readable     |-> stats.readable,
   isHidden     |-> IsHiddenName(fileName)]

\* createFileInfo, given the stats that fs.stat returned for the entry
CreateFileInfo(filePath, fileName, stats) ==
  [name         |-> fileName,
   path         |-> filePath,
   size         |-> IF stats.isDir THEN 0 ELSE stats.size,
   extension    |-> IF stats.isDir THEN <<>> ELSE ToLowerCase(ExtName(fileName)),
   type         |-> IF stats.isDir THEN "directory" ELSE "file",
   createdDate  |-> ToISOString(stats.birthtime),
   modifiedDate |-> ToISOString(stats.mtime),
   readable     |-> stats.readable,
   isHidden     |-> IsHiddenName(fileName)]

Pending == [st |-> "pending"]
Null == [st |-> "null"]
Info(fileInfo) == [st |-> "info", info |-> fileInfo]

\* ResolveEntry keeping an entry whose stat failed, as an empty file
ResolveEntry_KeepFailed(fsv, dir, fileName, includeHidden) ==
  LET filePath == Join(dir, fileName)
      stats    == Stat(fsv, filePath)
  IN  IF ~includeHidden /\ IsHiddenName(fileName) THEN Null
      ELSE IF ~stats.exists
      THEN Info(CreateFileInfo(filePath, fileName,
                               Node(fileName, FALSE, 0, 0, FALSE)))
      ELSE Info(CreateFileInfo(filePath, fileName, stats))

\* one callback of fileNames.map: the FileInfo, or null when the stat fails
\* or the entry is hidden and hidden entries were not asked for
ResolveEntry(fsv, dir, fileName, includeHidden) ==
  LET filePath == Join(dir, fileName)
      stats    == Stat(fsv, filePath)
  IN  IF ~stats.exists THEN Null
      ELSE IF ~includeHidden /\ IsHiddenName(fileName) THEN Null
      ELSE Info(CreateFileInfo(filePath, fileName, stats))

\* results.filter(item => item !== null), in the order of fileNames
NonNull(res) ==
  LET kept == SelectSeq([i \in 1..Len(res) |-> i], LAMBDA i : res[i].st = "info")
  IN  [k \in 1..Len(kept) |-> res[kept[k]].info]

----------------------------------------------------------------------------
(* Listing Engine: sort, paginate, aggregate *)

SortKeys == {"name", "size", "modified", "type"}
SortOrders == {"asc", "desc"}

\* Comparison with the operands of the size difference exchanged
Comparison_SizeReversed(a, b, sortBy) ==
  CASE sortBy = "name"     -> LocaleCompare(a.name, b.name)
    [] sortBy = "size"     -> b.size - a.size
    [] sortBy = "modified" -> GetTime(a.modifiedDate) - GetTime(b.modifiedDate)
    [] sortBy = "type"     -> LocaleCompare(TypeString(a.type), TypeString(b.type))

\* the switch of the sort callback
Comparison(a, b, sortBy) ==
  CASE sortBy = "name"     -> LocaleCompare(a.name, b.name)
    [] sortBy = "size"     -> a.size - b.size
    [] sortBy = "modified" -> GetTime(a.modifiedDate) - GetTime(b.modifiedDate)
    [] sortBy = "type"     -> LocaleCompare(TypeString(a.type), TypeString(b.type))

\* Compare without the negation for desc
Compare_IgnoreOrder(a, b, sortBy, sortOrder) == Comparison(a, b, sortBy)

\* the sort callback
Compare(a, b, sortBy, sortOrder) ==
  IF sortOrder = "desc" THEN 0 - Comparison(a, b, sortBy)
  ELSE Comparison(a, b, sortBy)

\* InsertSorted putting x in front of the elements that compare equal to it
InsertSorted_BeforeEqual(s, x, sortBy, sortOrder) ==
  LET after == { i \in 1..Len(s) : Compare(s[i], x, sortBy, sortOrder) >= 0 }
      k     == IF after = {} THEN Len(s) + 1
               ELSE CHOOSE i \in after : \A j \in after : i <= j
  IN  SubSeq(s, 1, k - 1) \o <<x>> \o SubSeq(s, k, Len(s))

\* x put into the sorted sequence s behind every element that does not
\* compare greater than it
InsertSorted(s, x, sortBy, sortOrder) ==
  LET after == { i \in 1..Len(s) : Compare(s[i], x, sortBy, sortOrder) > 0 }
      k     == IF after = {} THEN Len(s) + 1
               ELSE CHOOSE i \in after : \A j \in after : i <= j
  IN  SubSeq(s, 1, k - 1) \o <<x>> \o SubSeq(s, k, Len(s))

RECURSIVE SortFrom(_, _, _, _, _)
SortFrom(items, i, acc, sortBy, sortOrder) ==
  IF i > Len(items) THEN acc
  ELSE SortFrom(items, i + 1, InsertSorted(acc, items[i], sortBy, sortOrder),
                sortBy, sortOrder)

\* Array.prototype.sort with the callback: a stable sort
SortItems(items, sortBy, sortOrder) == SortFrom(items, 1, <<>>, sortBy, sortOrder)

Min(a, b) == IF a < b THEN a ELSE b
Max(a, b) == IF a > b THEN a ELSE b

\* Slice giving the last elements when the start index is past the end
Slice_LastWhenBeyond(items, startIndex, endIndex) ==
  IF startIndex >= Len(items)
  THEN SubSeq(items, Max(Len(items) - (endIndex - startIndex), 0) + 1, Len(items))
  ELSE SubSeq(items, startIndex + 1, Min(endIndex, Len(items)))

\* Array.prototype.slice(startIndex, endIndex), indices from 0 and not negative
Slice(items, startIndex, endIndex) ==
  SubSeq(items, Min(startIndex, Len(items)) + 1, Min(endIndex, Len(items)))

\* CeilDiv rounding down
CeilDiv_Floor(a, b) == a \div b

\* Math.ceil(a / b) for a >= 0 and b >= 1
CeilDiv(a, b) == (a + b - 1) \div b

RECURSIVE SumSizes(_, _)
\* items.reduce((sum, item) => sum + item.size, 0) from position i
SumSizes(items, i) ==
  IF i > Len(items) THEN 0 ELSE items[i].size + SumSizes(items, i + 1)

\* OfType without the test of the type
OfType_AnyType(items, type) == items

OfType(items, type) == SelectSeq(items, LAMBDA item : item.type = type)

\* PaginatedItems with the start index taken one page too far
PaginatedItems_StartAtPage(allItems, page, limit) ==
  Slice(allItems, page * limit, page * limit + limit)

\* the pagination slice of the sorted items
PaginatedItems(allItems, page, limit) ==
  Slice(allItems, (page - 1) * limit, (page - 1) * limit + limit)

\* ListingResponse with the counts and the byte total taken from the page
ListingResponse_PageAggregates(normalizedPath, res, r, now) ==
  LET allItems   == SortItems(NonNull(res), r.sortBy, r.sortOrder)
      total      == Len(allItems)
      totalPages == CeilDiv(total, r.limit)
      pageItems  == PaginatedItems(allItems, r.page, r.limit)
  IN  [path  |-> normalizedPath,
       items |-> pageItems,
       pagination |->
         [page |-> r.page, limit |-> r.limit, total |-> total,
          totalPages |-> totalPages,
          hasNext |-> r.page < totalPages, hasPrevious |-> r.page > 1],
       metadata |->
         [totalFiles       |-> Len(OfType(pageItems, "file")),
          totalDirectories |-> Len(OfType(pageItems, "directory")),
          totalSize        |-> SumSizes(OfType(pageItems, "file"), 1),
          scannedAt        |-> ToISOString(now)]]

\* the value listDirectory returns, from the resolved entries
ListingResponse(normalizedPath, res, r, now) ==
  LET allItems   == SortItems(NonNull(res), r.sortBy, r.sortOrder)
      total      == Len(allItems)
      totalPages == CeilDiv(total, r.limit)
  IN  [path  |-> normalizedPath,
       items |-> PaginatedItems(allItems, r.page, r.limit),
       pagination |->
         [page |-> r.page, limit |-> r.limit, total |-> total,
          totalPages |-> totalPages,
          hasNext |-> r.page < totalPages, hasPrevious |-> r.page > 1],
       metadata |->
         [totalFiles       |-> Len(OfType(allItems, "file")),
          totalDirectories |-> Len(OfType(allItems, "directory")),
          totalSize        |-> SumSizes(OfType(allItems, "file"), 1),
          scannedAt        |-> ToISOString(now)]]

\* listDirectory as a whole, on a filesystem that does not change meanwhile
ListDirectory(fsv, r, now) ==
  LET thrown == ValidatePath(fsv, r.path) IN
  IF thrown.kind = "error" THEN thrown
  ELSE LET normalizedPath == Resolve(r.path)
           stats          == Stat(fsv, normalizedPath)
       IN
       IF ~stats.exists THEN RawFsError
       ELSE IF ~stats.isDir
       THEN NotADirectoryError
       ELSE LET names == Readdir(fsv, normalizedPath)
                res   == [i \in 1..Len(names) |->
                            ResolveEntry(fsv, normalizedPath, names[i],
                                         r.includeHidden)]
            IN  Ok(ListingResponse(normalizedPath, res, r, now))

----------------------------------------------------------------------------
(* Metadata Probe *)

\* the descriptor getDirectoryMetadata returns for a path that exists
MetadataOf(normalizedPath, stats, totalItems, totalSize) ==
  [path |-> normalizedPath, exists |-> TRUE, isDirectory |-> stats.isDir,
   permissions |-> [readable |-> stats.readable, writable |-> stats.writable,
                    executable |-> stats.executable],
   totalItems |-> totalItems, totalSize |-> totalSize,
   lastAccessed |-> ToISOString(stats.atime),
   lastModified |-> ToISOString(stats.mtime),
   created |-> ToISOString(stats.birthtime)]

\* the descriptor returned in the catch block for statusCode 404
AbsentMetadata(normalizedPath) ==
  [path |-> normalizedPath, exists |-> FALSE, isDirectory |-> FALSE,
   permissions |-> [readable |-> FALSE, writable |-> FALSE,
                    executable |-> FALSE],
   totalItems |-> 0, totalSize |-> 0,
   lastAccessed |-> EmptyString, lastModified |-> EmptyString,
   created |-> EmptyString]

\* MetadataCatch turning every error made by createError into the descriptor
MetadataCatch_AnyStatus(normalizedPath, error) ==
  IF error.statusCode # NoStatus THEN Ok(AbsentMetadata(normalizedPath))
  ELSE error

\* the catch block of getDirectoryMetadata
MetadataCatch(normalizedPath, error) ==
  IF error.statusCode = 404 THEN Ok(AbsentMetadata(normalizedPath)) ELSE error

Size(n) == [st |-> "size", size |-> n]

\* ItemSize giving the stat size of whatever the child is
ItemSize_AnyKind(fsv, dir, item) ==
  LET itemStats == Stat(fsv, Join(dir, item))
  IN  IF itemStats.exists THEN Size(itemStats.size)
      ELSE Size(0)

\* one callback of items.map: the size of a regular file, 0 otherwise
ItemSize(fsv, dir, item) ==
  LET itemStats == Stat(fsv, Join(dir, item))
  IN  IF itemStats.exists /\ ~itemStats.isDir THEN Size(itemStats.size)
      ELSE Size(0)

RECURSIVE SumResults(_, _)
\* sizes.reduce((sum, size) => sum + size, 0) from position i
SumResults(res, i) ==
  IF i > Len(res) THEN 0 ELSE res[i].size + SumResults(res, i + 1)

----------------------------------------------------------------------------
(* Requests *)

Pages == 1..MaxPage
Limits == 1..MaxLimit

RP_d          == <<"/", "d">>
RP_dRelative  == <<"d">>
RP_empty      == <<>>
RP_escapeRel  == <<"a", "/", ".", ".", "/", ".", ".", "/", "e", "t", "c">>
RP_escapeAbs  == <<"/", "a", "/", ".", ".", "/", ".", ".", "/", "e", "t", "c">>
RP_passwd     == <<"/", "e", "t", "c", "/", "p", "a", "s", "s", "w", "d">>
RP_passwdCaps == <<"/", "E", "T", "C", "/", "P", "A", "S", "S", "W", "D">>
RP_passwdRelative == <<"e", "t", "c", "/", "p", "a", "s", "s", "w", "d">>
RP_escapePasswd == DotDot \o RP_passwd
RP_missing    == <<"/", "m", "i", "s", "s", "i", "n", "g">>
RP_file       == <<"/", "f">>
RP_etc        == <<"/", "e", "t", "c">>
\* 4096 characters, 4097 characters, and more than 4096 characters that
\* start with '..' and a restricted path
RP_max        == [i \in 1..4096 |-> "x"]
RP_long       == [i \in 1..4097 |-> "x"]
RP_longEscape == DotDot \o RP_passwd \o Sep \o [i \in 1..4090 |-> "x"]

\* the paths callers ask for
RawPaths ==
  { RP_d, RP_dRelative, RP_empty, RP_escapeRel, RP_escapeAbs, RP_passwd,
    RP_passwdCaps, RP_passwdRelative, RP_escapePasswd, RP_missing, RP_file,
    RP_etc }

\* the paths at the length limit that callers ask for
LongPaths == { RP_max, RP_long, RP_longEscape }

\* the paths asked for in the unchanged-directory runs
QuietPaths == { RP_d }

Request(path, page, limit, includeHidden, sortBy, sortOrder) ==
  [path |-> path, page |-> page, limit |-> limit,
   includeHidden |-> includeHidden, sortBy |-> sortBy, sortOrder |-> sortOrder]

\* the parameters of listDirectory other than the path, with their defaults
DefaultRequest(path) == Request(path, 1, 100, FALSE, "name", "asc")

NoRequest == Request(<<>>, 0, 0, FALSE, "none", "none")

FsCall(call, path) == <<call, path>>

\* fs.constants.R_OK, W_OK and X_OK
AccessModes == {"R_OK", "W_OK", "X_OK"}

\* a call of fs.access
FsAccess(path, mode) == <<"access", path, mode>>

\* the access calls of getFilePermissions
PermissionProbes(filePath) == { FsAccess(filePath, mode) : mode \in AccessModes }

\* the calls made so far and the calls made now
Calls(log, made) == log (+) SetToBag(made)

----------------------------------------------------------------------------
(* The server, one request at a time, each await a step *)

\* the directory /d of the running server at start: the scenario of the
\* specification and a subdirectory
ScenarioDir ==
  << Node(N_b,      FALSE, 10,   3, TRUE),
     Node(N_a,      FALSE, 5,    1, TRUE),
     Node(N_hidden, FALSE, 1,    1, TRUE),
     Node(N_sub,    TRUE,  4096, 3, TRUE) >>

IdleState ==
  /\ pc = "idle"
  /\ op = "none"
  /\ req = NoRequest
  /\ resolvedPath = <<>>
  /\ pathStats = NoNode
  /\ fileNames = <<>>
  /\ results = <<>>
  /\ outcome = NoOutcome
  /\ fsCalls = EmptyBag
  /\ warnLog = {}

\* the caller has not called before
NoCall == [req |-> NoRequest, outcome |-> NoOutcome]

\* process.env.NODE_ENV of the deployed server
NODE_ENV == "production"

\* directoryData: DirectoryListingResponse | null = null
NoData == [none |-> TRUE]

NoToast == [type |-> "none"]

\* the DirectoryService and the DirectoryBrowser as constructed
BrowserConstructed ==
  /\ loadingSubject = FALSE
  /\ currentPathSubject = Sep
  /\ subscribed = FALSE
  /\ currentPath = Sep
  /\ currentPage = 1
  /\ directoryData = NoData
  /\ loading = FALSE
  /\ requests = <<>>
  /\ toast = NoToast

Init ==
  /\ fs = FsWith(ScenarioDir)
  /\ removals = 0
  /\ clock = 0
  /\ last = NoCall
  /\ nodeEnv = NODE_ENV
  /\ IdleState
  /\ BrowserConstructed

\* the request ends with the value or the error
Settle(value) ==
  /\ pc' = "done"
  /\ outcome' = value

\* listDirectory is called: validatePath runs up to its read-access probe
CallList(path, page, limit, includeHidden, sortBy, sortOrder) ==
  /\ pc = "idle"
  /\ op' = "list"
  /\ req' = Request(path, page, limit, includeHidden, sortBy, sortOrder)
  /\ LET thrown == ValidateSync(path) IN
     IF thrown.kind = "error"
     THEN Settle(thrown)
     ELSE pc' = "access" /\ outcome' = NoOutcome
  /\ UNCHANGED <<clock, last, fs, removals, nodeEnv, browser, resolvedPath, pathStats, fileNames, results,
                 fsCalls, warnLog>>

\* getDirectoryMetadata is called: path.resolve, then validatePath up to its
\* read-access probe, its errors going through the catch block
CallMeta(path) ==
  /\ pc = "idle"
  /\ op' = "meta"
  /\ req' = DefaultRequest(path)
  /\ resolvedPath' = Resolve(path)
  /\ LET thrown == ValidateSync(path) IN
     IF thrown.kind = "error"
     THEN Settle(MetadataCatch(Resolve(path), thrown))
     ELSE pc' = "access" /\ outcome' = NoOutcome
  /\ UNCHANGED <<clock, last, fs, removals, nodeEnv, browser, pathStats, fileNames, results, fsCalls,
                 warnLog>>

\* the read-access probe of validatePath completes
AccessProbe ==
  /\ pc = "access"
  /\ fsCalls' = Calls(fsCalls, {FsAccess(Normalize(req.path), "R_OK")})
  /\ IF AccessR(fs, Normalize(req.path))
     THEN /\ pc' = "stat"
          /\ outcome' = outcome
          /\ resolvedPath' = Resolve(req.path)
     ELSE /\ Settle(IF op = "meta"
                    THEN MetadataCatch(resolvedPath, NotFoundError)
                    ELSE NotFoundError)
          /\ resolvedPath' = resolvedPath
  /\ UNCHANGED <<clock, last, fs, removals, nodeEnv, browser, op, req, pathStats, fileNames, results,
                 warnLog>>

\* the stat of the resolved path completes (for the metadata probe together
\* with the permission probes that follow it)
StatPath ==
  /\ pc = "stat"
  /\ fsCalls' = Calls(fsCalls,
                      {FsCall("stat", resolvedPath)}
                      \cup (IF op = "meta" /\ Stat(fs, resolvedPath).exists
                            THEN PermissionProbes(resolvedPath) ELSE {}))
  /\ LET stats == Stat(fs, resolvedPath) IN
     IF ~stats.exists
     THEN /\ Settle(IF op = "meta" THEN MetadataCatch(resolvedPath, RawFsError)
                    ELSE RawFsError)
          /\ pathStats' = pathStats
     ELSE IF ~stats.isDir
     THEN /\ Settle(IF op = "meta" THEN Ok(MetadataOf(resolvedPath, stats, 0, 0))
                    ELSE NotADirectoryError)
          /\ pathStats' = stats
     ELSE /\ pc' = "readdir"
          /\ outcome' = outcome
          /\ pathStats' = stats
  /\ UNCHANGED <<clock, last, fs, removals, nodeEnv, browser, op, req, resolvedPath, fileNames, results,
                 warnLog>>

\* ReadDirectory with listDirectory taking a failed readdir for an empty
\* directory, as getDirectoryMetadata does
ReadDirectory_EmptyOnFailure ==
  /\ pc = "readdir"
  /\ fsCalls' = Calls(fsCalls, {FsCall("readdir", resolvedPath)})
  /\ IF IsDirNode(fs, resolvedPath)
     THEN /\ fileNames' = Readdir(fs, resolvedPath)
          /\ results' = [i \in 1..Len(Readdir(fs, resolvedPath)) |-> Pending]
          /\ pc' = "resolve"
          /\ outcome' = outcome
     ELSE /\ Settle(IF op = "meta" THEN Ok(MetadataOf(resolvedPath, pathStats, 0, 0))
                    ELSE Ok(ListingResponse(resolvedPath, <<>>, req, clock)))
          /\ UNCHANGED <<fileNames, results>>
  /\ UNCHANGED <<clock, last, fs, removals, nodeEnv, browser, op, req, resolvedPath, pathStats, warnLog>>

\* readdir of the resolved path completes and the per-entry callbacks start
ReadDirectory ==
  /\ pc = "readdir"
  /\ fsCalls' = Calls(fsCalls, {FsCall("readdir", resolvedPath)})
  /\ IF IsDirNode(fs, resolvedPath)
     THEN /\ fileNames' = Readdir(fs, resolvedPath)
          /\ results' = [i \in 1..Len(Readdir(fs, resolvedPath)) |-> Pending]
          /\ pc' = "resolve"
          /\ outcome' = outcome
     ELSE /\ Settle(IF op = "meta" THEN Ok(MetadataOf(resolvedPath, pathStats, 0, 0))
                    ELSE RawFsError)
          /\ UNCHANGED <<fileNames, results>>
  /\ UNCHANGED <<clock, last, fs, removals, nodeEnv, browser, op, req, resolvedPath, pathStats, warnLog>>

\* the calls of one per-entry callback: createFileInfo stats the entry and,
\* when that succeeds, probes its permissions; the callback of the metadata
\* probe only stats it
EntryCalls(fsv, fn, filePath) ==
  {FsCall("stat", filePath)}
  \cup (IF fn = "list" /\ Stat(fsv, filePath).exists
        THEN PermissionProbes(filePath) ELSE {})

\* ResolveOne with each callback pushing its value onto the results when it
\* completes, instead of Promise.all keeping the value at the index of its entry
ResolveOne_PushOnCompletion(i) ==
  /\ pc = "resolve"
  /\ i \in 1..Len(fileNames)
  /\ results[i] = Pending
  /\ LET free == CHOOSE k \in 1..Len(results) :
                  /\ results[k] = Pending
                  /\ \A j \in 1..(k - 1) : results[j] # Pending
     IN  results' = [results EXCEPT ![free] =
                       IF op = "meta" THEN ItemSize(fs, resolvedPath, fileNames[i])
                       ELSE ResolveEntry(fs, resolvedPath, fileNames[i],
                                         req.includeHidden)]
  /\ fsCalls' = Calls(fsCalls, EntryCalls(fs, op, Join(resolvedPath, fileNames[i])))
  /\ warnLog' = IF op = "list" /\ ~Stat(fs, Join(resolvedPath, fileNames[i])).exists
                THEN warnLog \cup {fileNames[i]}
                ELSE warnLog
  /\ UNCHANGED <<clock, last, fs, removals, nodeEnv, browser, pc, op, req, resolvedPath,
                 pathStats, fileNames, outcome>>

\* the callback of entry i completes: they complete in any order
ResolveOne(i) ==
  /\ pc = "resolve"
  /\ i \in 1..Len(fileNames)
  /\ results[i] = Pending
  /\ results' = [results EXCEPT ![i] =
                   IF op = "meta" THEN ItemSize(fs, resolvedPath, fileNames[i])
                   ELSE ResolveEntry(fs, resolvedPath, fileNames[i],
                                     req.includeHidden)]
  /\ fsCalls' = Calls(fsCalls, EntryCalls(fs, op, Join(resolvedPath, fileNames[i])))
  /\ warnLog' = IF op = "list" /\ ~Stat(fs, Join(resolvedPath, fileNames[i])).exists
                THEN warnLog \cup {fileNames[i]}
                ELSE warnLog
  /\ UNCHANGED <<clock, last, fs, removals, nodeEnv, browser, pc, op, req, resolvedPath, pathStats, fileNames,
                 outcome>>

\* Finish going on as soon as one callback has completed, as Promise.race
\* would
Finish_WithoutWaiting ==
  /\ pc = "resolve"
  /\ \E i \in 1..Len(results) : results[i] # Pending
  /\ Settle(IF op = "meta"
            THEN Ok(MetadataOf(resolvedPath, pathStats, Len(fileNames),
                               SumResults(results, 1)))
            ELSE Ok(ListingResponse(resolvedPath, results, req, clock)))
  /\ UNCHANGED <<clock, last, fs, removals, nodeEnv, browser, op, req, resolvedPath, pathStats, fileNames,
                 results, fsCalls, warnLog>>

\* Promise.all has every result: the value is built and returned
Finish ==
  /\ pc = "resolve"
  /\ \A i \in 1..Len(results) : results[i] # Pending
  /\ Settle(IF op = "meta"
            THEN Ok(MetadataOf(resolvedPath, pathStats, Len(fileNames),
                               SumResults(results, 1)))
            ELSE Ok(ListingResponse(resolvedPath, results, req, clock)))
  /\ UNCHANGED <<clock, last, fs, removals, nodeEnv, browser, op, req, resolvedPath, pathStats, fileNames,
                 results, fsCalls, warnLog>>

\* the response has been sent and the server takes the next request
Return ==
  /\ pc \in {"done", "rejected"}
  /\ pc' = "idle"
  /\ op' = "none"
  /\ req' = NoRequest
  /\ resolvedPath' = <<>>
  /\ pathStats' = NoNode
  /\ fileNames' = <<>>
  /\ results' = <<>>
  /\ outcome' = NoOutcome
  /\ fsCalls' = EmptyBag
  /\ warnLog' = {}
  /\ UNCHANGED <<clock, last, fs, removals, nodeEnv, browser>>

\* another process deletes child i of /d
RemoveChild(i) ==
  /\ removals < MaxRemovals
  /\ P_d \in DOMAIN fs
  /\ i \in 1..Len(fs[P_d])
  /\ fs' = [fs EXCEPT ![P_d] =
              SubSeq(fs[P_d], 1, i - 1) \o SubSeq(fs[P_d], i + 1, Len(fs[P_d]))]
  /\ removals' = removals + 1
  /\ UNCHANGED <<nodeEnv, browser, clock, last, pc, op, req, resolvedPath, pathStats, fileNames,
                 results, outcome, fsCalls, warnLog>>

----------------------------------------------------------------------------
(* The controllers of GET /list and GET /metadata and the error handler *)

\* query('path').notEmpty().isLength({ max: 4096 })
PathErrors(path) ==
  (IF Len(path) = 0 THEN <<"Path is required">> ELSE <<>>)
  \o (IF Len(path) > 4096 THEN <<"Path too long">> ELSE <<>>)

\* query('page').optional().isInt({ min: 1 })
PageErrors(page) ==
  IF page >= 1 THEN <<>> ELSE <<"Page must be a positive integer">>

\* LimitErrors without the upper bound of isInt
LimitErrors_NoMax(limit) ==
  IF limit >= 1 THEN <<>> ELSE <<"Limit must be between 1 and 1000">>

\* query('limit').optional().isInt({ min: 1, max: 1000 })
LimitErrors(limit) ==
  IF limit >= 1 /\ limit <= 1000 THEN <<>>
  ELSE <<"Limit must be between 1 and 1000">>

\* validationResult(req).array() for validateDirectoryListing; includeHidden,
\* sortBy and sortOrder are given with values the rules accept
ListQueryErrors(path, page, limit) ==
  PathErrors(path) \o PageErrors(page) \o LimitErrors(limit)

\* the listDirectory controller: a query with validation errors is answered
\* at once, any other is passed to DirectoryService.listDirectory
HttpList(path, page, limit, includeHidden, sortBy, sortOrder) ==
  /\ pc = "idle"
  /\ IF ListQueryErrors(path, page, limit) # <<>>
     THEN /\ pc' = "rejected"
          /\ op' = "list"
          /\ req' = Request(path, page, limit, includeHidden, sortBy, sortOrder)
          /\ UNCHANGED <<clock, last, fs, removals, nodeEnv, browser, resolvedPath, pathStats,
                         fileNames, results, outcome, fsCalls, warnLog>>
     ELSE CallList(path, page, limit, includeHidden, sortBy, sortOrder)

\* the getDirectoryMetadata controller
HttpMeta(path) ==
  /\ pc = "idle"
  /\ IF PathErrors(path) # <<>>
     THEN /\ pc' = "rejected"
          /\ op' = "meta"
          /\ req' = DefaultRequest(path)
          /\ UNCHANGED <<clock, last, fs, removals, nodeEnv, browser, resolvedPath, pathStats,
                         fileNames, results, outcome, fsCalls, warnLog>>
     ELSE CallMeta(path)

\* ErrorHandler answering every error with status 500
ErrorHandler_AlwaysInternal(error) ==
  LET statusCode == 500
      message    == IF nodeEnv = "production" /\ statusCode = 500
                    THEN "Internal server error"
                    ELSE error.message
  IN  [status |-> statusCode,
       body   |-> [error     |-> [message |-> message,
                                  stack   |-> nodeEnv = "development"],
                   timestamp |-> ToISOString(clock)]]

\* ErrorHandler adding the stack whenever NODE_ENV is not 'production'
ErrorHandler_StackOutsideProduction(error) ==
  LET statusCode == IF error.statusCode = NoStatus THEN 500 ELSE error.statusCode
      message    == IF nodeEnv = "production" /\ statusCode = 500
                    THEN "Internal server error"
                    ELSE error.message
  IN  [status |-> statusCode,
       body   |-> [error     |-> [message |-> message,
                                  stack   |-> nodeEnv # "production"],
                   timestamp |-> ToISOString(clock)]]

\* errorHandler: the status and the body it sends for a thrown error; stack
\* tells whether the body has the property stack
ErrorHandler(error) ==
  LET statusCode == IF error.statusCode = NoStatus THEN 500 ELSE error.statusCode
      message    == IF nodeEnv = "production" /\ statusCode = 500
                    THEN "Internal server error"
                    ELSE error.message
  IN  [status |-> statusCode,
       body   |-> [error     |-> [message |-> message,
                                  stack   |-> nodeEnv = "development"],
                   timestamp |-> ToISOString(clock)]]

NoResponse == [status |-> 0, body |-> [none |-> TRUE]]

\* what the client of the request in hand is sent: the validation failure of
\* the controller, the value of the service, or what errorHandler makes of
\* the error asyncHandler passes on
HttpResponse ==
  IF pc = "rejected"
  THEN [status |-> 400,
        body   |-> [error   |-> "Validation failed",
                    details |-> IF op = "list"
                                THEN ListQueryErrors(req.path, req.page, req.limit)
                                ELSE PathErrors(req.path)]]
  ELSE IF pc = "done" /\ outcome.kind = "ok"
  THEN [status |-> 200, body |-> [success |-> TRUE, data |-> outcome.value]]
  ELSE IF pc = "done"
  THEN ErrorHandler(outcome)
  ELSE NoResponse

\* the values queries carry for page and limit
QueryPages == {0} \cup Pages
QueryLimits == {0 - 1, 0, 1000, 1001} \cup Limits

\* a request arrives
AcceptHttpList ==
  /\ pc = "idle"
  /\ \E path \in RawPaths, page \in QueryPages, limit \in QueryLimits,
        includeHidden \in BOOLEAN, sortBy \in SortKeys, sortOrder \in SortOrders :
       HttpList(path, page, limit, includeHidden, sortBy, sortOrder)

AcceptHttpMeta ==
  /\ pc = "idle"
  /\ \E path \in RawPaths : HttpMeta(path)

\* a request with a path at the length limit arrives, by HTTP or from
\* other code
AcceptLongPath ==
  /\ pc = "idle"
  /\ \E path \in LongPaths :
       \/ HttpList(path, 1, 1, FALSE, "name", "asc")
       \/ HttpMeta(path)
       \/ CallList(path, 1, 1, FALSE, "name", "asc")
       \/ CallMeta(path)

\* the service is called by other code
AcceptList ==
  /\ pc = "idle"
  /\ \E path \in RawPaths, page \in Pages, limit \in Limits,
        includeHidden \in BOOLEAN, sortBy \in SortKeys, sortOrder \in SortOrders :
       CallList(path, page, limit, includeHidden, sortBy, sortOrder)

AcceptMeta ==
  /\ pc = "idle"
  /\ \E path \in RawPaths : CallMeta(path)

Next ==
  \/ AcceptHttpList
  \/ AcceptHttpMeta
  \/ AcceptLongPath
  \/ AcceptList
  \/ AcceptMeta
  \/ AccessProbe
  \/ StatPath
  \/ ReadDirectory
  \/ \E i \in 1..Len(fileNames) : ResolveOne(i)
  \/ Finish
  \/ Return
  \/ \E i \in 1..Len(ScenarioDir) : RemoveChild(i)

Spec == Init /\ [][Next]_vars

----------------------------------------------------------------------------
(* The server while another process may also delete the directory /d *)

\* another process deletes /d and all that is in it
RemoveDir ==
  /\ removals < MaxRemovals
  /\ P_d \in DOMAIN fs
  /\ fs' = [p \in DOMAIN fs \ {P_d} |->
              IF p = P_root
              THEN SelectSeq(fs[p], LAMBDA kid : kid.name # <<"d">>)
              ELSE fs[p]]
  /\ removals' = removals + 1
  /\ UNCHANGED <<nodeEnv, browser, clock, last, pc, op, req, resolvedPath, pathStats, fileNames,
                 results, outcome, fsCalls, warnLog>>

NextRace ==
  \/ Next
  \/ RemoveDir

SpecRace == Init /\ [][NextRace]_vars

----------------------------------------------------------------------------
(* The server started with any NODE_ENV, answering GET /metadata while
   another process may delete /d *)

\* the values of process.env.NODE_ENV: the two errorHandler tests for and
\* one that is neither
Environments == {"production", "development", "test"}

InitEnv ==
  /\ fs = FsWith(ScenarioDir)
  /\ removals = 0
  /\ clock = 0
  /\ last = NoCall
  /\ nodeEnv \in Environments
  /\ IdleState
  /\ BrowserConstructed

NextEnv ==
  \/ AcceptHttpMeta
  \/ AccessProbe
  \/ StatPath
  \/ ReadDirectory
  \/ \E i \in 1..Len(fileNames) : ResolveOne(i)
  \/ Finish
  \/ Return
  \/ RemoveDir

SpecEnv == InitEnv /\ [][NextEnv]_vars

----------------------------------------------------------------------------
(* The server on a directory that nothing changes: a call is one step *)

InitQuiet ==
  /\ fs \in { FsWith(d) : d \in DirsUpTo(MaxEntries) }
  /\ removals = 0
  /\ clock = 0
  /\ last = NoCall
  /\ nodeEnv = NODE_ENV
  /\ IdleState
  /\ BrowserConstructed

\* listDirectory from call to return
ListDirectoryCall(path, page, limit, includeHidden, sortBy, sortOrder) ==
  /\ pc = "idle"
  /\ op' = "list"
  /\ req' = Request(path, page, limit, includeHidden, sortBy, sortOrder)
  /\ Settle(ListDirectory(fs, req', clock))
  /\ UNCHANGED <<clock, last, fs, removals, nodeEnv, browser, resolvedPath, pathStats, fileNames, results,
                 fsCalls, warnLog>>

AcceptQuiet ==
  /\ pc = "idle"
  /\ \E path \in QuietPaths, page \in Pages, limit \in Limits,
        includeHidden \in BOOLEAN, sortBy \in SortKeys, sortOrder \in SortOrders :
       ListDirectoryCall(path, page, limit, includeHidden, sortBy, sortOrder)

NextQuiet ==
  \/ AcceptQuiet
  \/ Return

SpecQuiet == InitQuiet /\ [][NextQuiet]_vars

----------------------------------------------------------------------------
(* A caller that repeats its listDirectory call while time passes and the
   directory stays as it is *)

\* a millisecond passes
Tick ==
  /\ clock < MaxClock
  /\ clock' = clock + 1
  /\ UNCHANGED <<fs, removals, nodeEnv, browser, pc, op, req, resolvedPath, pathStats, fileNames,
                 results, outcome, fsCalls, warnLog, last>>

\* the await of the caller completes: it has the value or the error of its
\* call
Deliver ==
  /\ pc = "done"
  /\ last' = [req |-> req, outcome |-> outcome]
  /\ pc' = "idle"
  /\ op' = "none"
  /\ req' = NoRequest
  /\ resolvedPath' = <<>>
  /\ pathStats' = NoNode
  /\ fileNames' = <<>>
  /\ results' = <<>>
  /\ outcome' = NoOutcome
  /\ fsCalls' = EmptyBag
  /\ warnLog' = {}
  /\ UNCHANGED <<fs, removals, nodeEnv, browser, clock>>

\* the first call of the caller
AcceptFirst ==
  /\ pc = "idle"
  /\ last = NoCall
  /\ \E path \in QuietPaths, page \in Pages, limit \in Limits,
        includeHidden \in BOOLEAN, sortBy \in SortKeys, sortOrder \in SortOrders :
       CallList(path, page, limit, includeHidden, sortBy, sortOrder)

\* the caller calls again with the parameters of its previous call
AcceptRepeat ==
  /\ pc = "idle"
  /\ last # NoCall
  /\ CallList(last.req.path, last.req.page, last.req.limit,
              last.req.includeHidden, last.req.sortBy, last.req.sortOrder)

NextRepeat ==
  \/ AcceptFirst
  \/ AcceptRepeat
  \/ AccessProbe
  \/ StatPath
  \/ ReadDirectory
  \/ \E i \in 1..Len(fileNames) : ResolveOne(i)
  \/ Finish
  \/ Deliver
  \/ Tick

SpecRepeat == Init /\ [][NextRepeat]_vars

----------------------------------------------------------------------------
(* The browser: the Angular DirectoryService and the DirectoryBrowser
   component, sending GET /list requests to the server and receiving the
   answers in any order *)

MaxRequests == 3

\* itemsPerPage of the component, and the default limit of the service
ItemsPerPage == 100

\* the subdirectory of /d
P_sub == Join(P_d, N_sub)

\* the directories the user goes to: by the quick links, the entries of a
\* listing and the path typed in
BrowsePaths == { P_root, P_d, P_sub, RP_missing }

\* s.split(separator)
SplitBy(s, separator) ==
  LET seps   == SelectSeq([i \in 1..Len(s) |-> i], LAMBDA i : s[i] = separator)
      bounds == <<0>> \o seps \o <<Len(s) + 1>>
  IN  [k \in 1..(Len(bounds) - 1) |->
         SubSeq(s, bounds[k] + 1, bounds[k + 1] - 1)]

RECURSIVE JoinBy(_, _, _)
\* parts.join(separator) from position i
JoinBy(parts, separator, i) ==
  IF i > Len(parts) THEN <<>>
  ELSE IF i = Len(parts) THEN parts[i]
  ELSE parts[i] \o <<separator>> \o JoinBy(parts, separator, i + 1)

\* path.match(/^[A-Z]:\\?$/)
IsDriveRoot(path) ==
  /\ Len(path) \in {2, 3}
  /\ path[1] \in { UpperChars[i] : i \in 1..26 }
  /\ path[2] = ":"
  /\ Len(path) = 3 => path[3] = "\\"

\* DirectoryService.getParentPath
GetParentPath(path) ==
  IF path = Sep \/ path = <<>> THEN Sep
  ELSE IF IsDriveRoot(path) THEN path
  ELSE LET windows   == Includes(path, <<"\\">>)
           separator == IF windows THEN "\\" ELSE "/"
           parts     == SelectSeq(SplitBy(path, separator),
                                  LAMBDA part : part # <<>>)
           front     == SubSeq(parts, 1, Len(parts) - 1)
       IN  IF Len(parts) <= 1
           THEN IF windows THEN <<"C", ":", "\\">> ELSE Sep
           ELSE IF windows THEN JoinBy(front, "\\", 1) \o <<"\\">>
           ELSE Sep \o JoinBy(front, "/", 1)

\* a GET /list request of the browser; origin tells which subscriber waits
\* for it, that of loadDirectory or that of onNavigateUp
ListingRequest(path, page, limit, origin) ==
  [path |-> path, page |-> page, limit |-> limit, origin |-> origin,
   status |-> "pending"]

\* what the controller sends for the value or the error of the service
SendResult(result) ==
  IF result.kind = "ok"
  THEN [status |-> 200, body |-> [success |-> TRUE, data |-> result.value]]
  ELSE ErrorHandler(result)

\* what the server answers to GET /list with the query of request r:
\* the controller, DirectoryService.listDirectory and the error handler
HttpAnswer(fsv, r, now) ==
  IF ListQueryErrors(r.path, r.page, r.limit) # <<>>
  THEN [status |-> 400,
        body   |-> [error   |-> "Validation failed",
                    details |-> ListQueryErrors(r.path, r.page, r.limit)]]
  ELSE SendResult(ListDirectory(fsv, Request(r.path, r.page, r.limit, FALSE,
                                             "name", "asc"), now))

\* showError of the subscriber of request r
ErrorToast(r, status) ==
  [type   |-> "error",
   text   |-> IF r.origin = "up" THEN "Failed to navigate up"
              ELSE "Failed to load directory",
   status |-> status]

InitBrowser ==
  /\ fs = FsWith(ScenarioDir) @@ (P_sub :> <<>>)
  /\ removals = 0
  /\ clock = 0
  /\ last = NoCall
  /\ nodeEnv = NODE_ENV
  /\ IdleState
  /\ BrowserConstructed

\* DirectoryService.getDirectoryListing called and subscribed to, with
\* this.loading = true of the caller before it: the flag is raised and the
\* request is sent
GetDirectoryListing(path, page, origin) ==
  /\ Len(requests) < MaxRequests
  /\ loadingSubject' = TRUE
  /\ loading' = TRUE
  /\ requests' = Append(requests, ListingRequest(path, page, ItemsPerPage, origin))

\* ngOnInit: initializeDefaultPath loads '/', then the component subscribes
\* to loading$ and currentPath$ and is given their current values
NgOnInit ==
  /\ ~subscribed
  /\ GetDirectoryListing(Sep, currentPage, "load")
  /\ currentPath' = currentPathSubject
  /\ subscribed' = TRUE
  /\ UNCHANGED <<server, currentPathSubject, currentPage, directoryData, toast>>

\* navigateToPath(path): onItemSelected, onBreadcrumbSelected,
\* onCustomPathSubmit and the quick links
NavigateToPath(path) ==
  /\ subscribed
  /\ currentPath' = path
  /\ currentPage' = 1
  /\ GetDirectoryListing(path, 1, "load")
  /\ UNCHANGED <<server, currentPathSubject, subscribed, directoryData, toast>>

\* onPageChanged(page)
OnPageChanged(page) ==
  /\ subscribed
  /\ currentPage' = page
  /\ GetDirectoryListing(currentPath, page, "load")
  /\ UNCHANGED <<server, currentPathSubject, subscribed, currentPath,
                 directoryData, toast>>

\* refreshDirectory()
RefreshDirectory ==
  /\ subscribed
  /\ GetDirectoryListing(currentPath, currentPage, "load")
  /\ UNCHANGED <<server, currentPathSubject, subscribed, currentPath,
                 currentPage, directoryData, toast>>

\* onNavigateUp(): DirectoryService.navigateUp asks for the parent of the
\* path of the service, with the default page
OnNavigateUp ==
  /\ subscribed
  /\ GetDirectoryListing(GetParentPath(currentPathSubject), 1, "up")
  /\ UNCHANGED <<server, currentPathSubject, subscribed, currentPath,
                 currentPage, directoryData, toast>>

\* the answer to request i arrives: map and the next callback of the
\* subscriber for status 200, handleError and the error callback otherwise
Respond(i) ==
  /\ i \in 1..Len(requests)
  /\ requests[i].status = "pending"
  /\ \E r \in {requests[i]}, answer \in {HttpAnswer(fs, requests[i], clock)} :
         IF answer.status = 200
         THEN /\ loadingSubject' = FALSE
              /\ currentPathSubject' = r.path
              /\ currentPath' = r.path
              /\ directoryData' = answer.body.data
              /\ currentPage' = IF r.origin = "up" THEN 1 ELSE currentPage
              /\ loading' = FALSE
              /\ requests' = [requests EXCEPT ![i].status = "ok"]
              /\ toast' = toast
         ELSE /\ loadingSubject' = FALSE
              /\ loading' = FALSE
              /\ requests' = [requests EXCEPT ![i].status = "failed"]
              /\ toast' = ErrorToast(r, answer.status)
              /\ UNCHANGED <<currentPathSubject, currentPath, directoryData,
                             currentPage>>
  /\ UNCHANGED <<server, subscribed>>

\* request i fails without an answer of the server (status 0): handleError
\* and the error callback of the subscriber
ConnectionLost(i) ==
  /\ i \in 1..Len(requests)
  /\ requests[i].status = "pending"
  /\ loadingSubject' = FALSE
  /\ loading' = FALSE
  /\ requests' = [requests EXCEPT ![i].status = "failed"]
  /\ toast' = ErrorToast(requests[i], 0)
  /\ UNCHANGED <<server, subscribed, currentPathSubject, currentPath,
                 directoryData, currentPage>>

NextBrowser ==
  \/ NgOnInit
  \/ \E path \in BrowsePaths : NavigateToPath(path)
  \/ \E page \in Pages : OnPageChanged(page)
  \/ RefreshDirectory
  \/ OnNavigateUp
  \/ \E i \in 1..Len(requests) : Respond(i)
  \/ \E i \in 1..Len(requests) : ConnectionLost(i)

SpecBrowser == InitBrowser /\ [][NextBrowser]_vars

----------------------------------------------------------------------------
(* Properties *)

\* a listDirectory call has returned a value
Served == pc = "done" /\ op = "list" /\ outcome.kind = "ok"

\* the children of directory dir that the hidden filter lets through, as
\* the entries the listing describes, in enumeration order
FilteredEntries(fsv, dir, includeHidden) ==
  LET kids == SelectSeq(fsv[dir], LAMBDA kid : includeHidden \/ kid.name[1] # ".")
  IN  [i \in 1..Len(kids) |-> CreateFileInfo(Join(dir, kids[i].name), kids[i].name, kids[i])]

RECURSIVE PagesFrom(_, _, _)
\* the items of pages k, k+1, ..., totalPages of the request that was served,
\* one after the other: the page that was served from the response, the
\* other pages from calls that differ in the page number only
PagesFrom(fsv, r, k) ==
  IF k > outcome.value.pagination.totalPages THEN <<>>
  ELSE (IF k = r.page THEN outcome.value.items
        ELSE ListDirectory(fsv, [r EXCEPT !.page = k], clock).value.items)
       \o PagesFrom(fsv, r, k + 1)

NamesOf(items) == {items[i].name : i \in 1..Len(items)}

\* C1: on an unchanged directory, for every includeHidden, sortBy, sortOrder
\* and limit, the items of pages 1..totalPages put one after the other are
\* exactly the filtered entries in sorted order: every entry is on exactly
\* one page, none twice and none left out.
C1_PaginationPartition ==
  Served =>
    LET all     == PagesFrom(fs, req, 1)
        entries == FilteredEntries(fs, Resolve(req.path), req.includeHidden)
    IN  /\ all = SortItems(entries, req.sortBy, req.sortOrder)
        /\ Len(all) = Len(entries)
        /\ \A i \in 1..Len(entries) :
             Cardinality({k \in 1..Len(all) : all[k] = entries[i]}) = 1

\* a last page that is not full, after at least one full page
C1_Witness ==
  /\ Served
  /\ outcome.value.pagination.totalPages >= 2
  /\ req.page = outcome.value.pagination.totalPages
  /\ Len(outcome.value.items) < req.limit
  /\ Len(outcome.value.items) > 0

RECURSIVE SumInfoSizes(_)
\* the sum of the sizes of the results with the indices in S
SumInfoSizes(S) ==
  IF S = {} THEN 0
  ELSE LET i == CHOOSE i \in S : TRUE
       IN  results[i].info.size + SumInfoSizes(S \ {i})

\* C2: in every value listDirectory returns, totalFiles + totalDirectories
\* is pagination.total, the number of entries that were kept, and totalSize
\* is the sum of the sizes of exactly the kept entries of type file.
C2_AggregatesConsistent ==
  Served =>
    LET v     == outcome.value
        kept  == {i \in 1..Len(results) : results[i].st = "info"}
        files == {i \in kept : results[i].info.type = "file"}
    IN  /\ v.metadata.totalFiles + v.metadata.totalDirectories = v.pagination.total
        /\ v.pagination.total = Cardinality(kept)
        /\ v.metadata.totalFiles = Cardinality(files)
        /\ v.metadata.totalSize = SumInfoSizes(files)

\* files and a directory are counted, and an entry was left out
C2_Witness ==
  /\ Served
  /\ outcome.value.metadata.totalFiles >= 2
  /\ outcome.value.metadata.totalDirectories >= 1
  /\ outcome.value.pagination.total < Len(fileNames)

\* the three aggregates and pagination.total of a returned value
Summary(v) ==
  <<v.metadata.totalFiles, v.metadata.totalDirectories, v.metadata.totalSize,
    v.pagination.total>>

\* C3: on an unchanged directory and for a fixed includeHidden, totalFiles,
\* totalDirectories, totalSize and pagination.total are the same whatever
\* page, limit, sortBy and sortOrder are: every call returns the four values
\* of the call with the default page, limit and sort, also when its own page
\* is empty.
C3_SummaryIndependentOfPage ==
  Served =>
    LET reference == ListDirectory(fs, [DefaultRequest(req.path) EXCEPT
                                          !.includeHidden = req.includeHidden],
                                   clock)
    IN  /\ reference.kind = "ok"
        /\ Summary(outcome.value) = Summary(reference.value)

\* a page past the last one of a directory that has entries and bytes
C3_Witness ==
  /\ Served
  /\ req.page > outcome.value.pagination.totalPages
  /\ outcome.value.items = <<>>
  /\ outcome.value.pagination.total >= 2
  /\ outcome.value.metadata.totalSize > 0
  /\ req.sortBy = "size"
  /\ req.sortOrder = "desc"

RECURSIVE EscapesFrom(_, _, _)
\* walking the segments from position i at the given depth below the start,
\* some '..' is met at depth 0
EscapesFrom(segs, i, depth) ==
  IF i > Len(segs) THEN FALSE
  ELSE IF segs[i] = DotDot
       THEN depth = 0 \/ EscapesFrom(segs, i + 1, depth - 1)
  ELSE IF segs[i] = <<>> \/ segs[i] = Dot THEN EscapesFrom(segs, i + 1, depth)
  ELSE EscapesFrom(segs, i + 1, depth + 1)

\* the path tries to leave its starting point through '..' segments
AttemptsEscape(p) == EscapesFrom(Split(p), 1, 0)

\* C4: a path that tries to escape through '..' segments, relative or
\* absolute, is rejected with the 403 "Path traversal not allowed" error, and
\* no stat and no readdir is made for it, by listDirectory and by
\* getDirectoryMetadata.
C4_EscapeRejected ==
  (pc # "idle" /\ AttemptsEscape(req.path)) =>
     /\ \A c \in BagToSet(fsCalls) : c[1] \notin {"stat", "readdir"}
     /\ pc = "done" =>
          /\ outcome.kind = "error"
          /\ outcome.statusCode = 403
          /\ outcome.message = "Path traversal not allowed"

\* C5: for a path that passes the length, traversal and deny-list checks and
\* does not exist, listDirectory fails with 404 and getDirectoryMetadata
\* returns exists=false, isDirectory=false, the three permissions false,
\* totalItems=0, totalSize=0 and the three timestamps empty.
C5_MissingPath ==
  (/\ pc = "done"
   /\ ValidateSync(req.path).kind # "error"
   /\ ~Stat(fs, Normalize(req.path)).exists) =>
     IF op = "list"
     THEN /\ outcome.kind = "error"
          /\ outcome.statusCode = 404
     ELSE /\ outcome.kind = "ok"
          /\ outcome.value.exists = FALSE
          /\ outcome.value.isDirectory = FALSE
          /\ outcome.value.permissions =
               [readable |-> FALSE, writable |-> FALSE, executable |-> FALSE]
          /\ outcome.value.totalItems = 0
          /\ outcome.value.totalSize = 0
          /\ outcome.value.lastAccessed = EmptyString
          /\ outcome.value.lastModified = EmptyString
          /\ outcome.value.created = EmptyString

\* the metadata probe has answered for the missing path
C5_Witness ==
  /\ pc = "done"
  /\ op = "meta"
  /\ req.path = RP_missing
  /\ outcome.kind = "ok"
  /\ BagIn(FsAccess(RP_missing, "R_OK"), fsCalls)

\* C6: when validatePath fails with 400 or 403, getDirectoryMetadata throws
\* that same error and returns no descriptor; the exists=false descriptor is
\* returned only for a path that passed those checks.
C6_GuardErrorsPropagate ==
  (pc = "done" /\ op = "meta") =>
     /\ ValidateSync(req.path).kind = "error" =>
          /\ outcome = ValidateSync(req.path)
          /\ outcome.kind = "error"
          /\ outcome.statusCode \in {400, 403}
     /\ req.path = RP_empty => outcome.kind = "error" /\ outcome.statusCode = 400
     /\ req.path \in {RP_escapeRel, RP_passwd, RP_passwdCaps} =>
          outcome.kind = "error" /\ outcome.statusCode = 403
     /\ (outcome.kind = "ok" /\ ~outcome.value.exists) =>
          ValidateSync(req.path).kind = "none"

\* the metadata probe has thrown the deny-list error
C6_Witness ==
  /\ pc = "done"
  /\ op = "meta"
  /\ req.path = RP_passwdCaps
  /\ outcome.kind = "error"
  /\ outcome.statusCode = 403
  /\ fsCalls = EmptyBag

\* C7: once readdir has returned the names, listDirectory returns a value
\* whichever children fail to stat; the children that failed are not among
\* the items and are not counted in pagination.total or in the aggregates,
\* and every other child that passes the hidden filter is counted and
\* appears on its page.
C7_ResolveOrOmit ==
  (pc = "done" /\ op = "list" /\ BagIn(FsCall("readdir", resolvedPath), fsCalls)) =>
     /\ outcome.kind = "ok"
     /\ LET v        == outcome.value
            names    == {fileNames[i] : i \in 1..Len(fileNames)}
            expected == {n \in names \ warnLog : req.includeHidden \/ n[1] # "."}
            before   == (req.page - 1) * req.limit
        IN  /\ v.pagination.total = Cardinality(expected)
            /\ v.metadata.totalFiles + v.metadata.totalDirectories
                 = Cardinality(expected)
            /\ NamesOf(v.items) \subseteq expected
            /\ Cardinality(NamesOf(v.items)) = Len(v.items)
            /\ Len(v.items) = Min(req.limit, Max(0, Cardinality(expected) - before))
            /\ \A i \in 1..Len(results) :
                 fileNames[i] \in expected <=> results[i].st = "info"

\* a listing returned although the stat of a child failed, with a child kept
C7_Witness ==
  /\ pc = "done"
  /\ op = "list"
  /\ outcome.kind = "ok"
  /\ warnLog # {}
  /\ req.includeHidden
  /\ outcome.value.pagination.total >= 1
  /\ outcome.value.pagination.total < Len(fileNames)

RECURSIVE SumNodeSizes(_, _)
\* the sum of the stat sizes of the children with the indices in S
SumNodeSizes(kids, S) ==
  IF S = {} THEN 0
  ELSE LET i == CHOOSE i \in S : TRUE
       IN  kids[i].size + SumNodeSizes(kids, S \ {i})

\* C8: with includeHidden=false no entry whose name starts with '.' is among
\* the items or counted in total, totalFiles, totalDirectories or totalSize;
\* with includeHidden=true every child is.  For [b 10B, a 5B, .h 1B] and
\* includeHidden=false: total=2, totalFiles=2, totalDirectories=0,
\* totalSize=15.
C8_HiddenFilter ==
  Served =>
    LET v       == outcome.value
        kids    == fs[Resolve(req.path)]
        visible == {i \in 1..Len(kids) : req.includeHidden \/ kids[i].name[1] # "."}
        files   == {i \in visible : ~kids[i].isDir}
    IN  /\ v.pagination.total = Cardinality(visible)
        /\ v.metadata.totalFiles = Cardinality(files)
        /\ v.metadata.totalDirectories = Cardinality(visible \ files)
        /\ v.metadata.totalSize = SumNodeSizes(kids, files)
        /\ NamesOf(PagesFrom(fs, req, 1)) = {kids[i].name : i \in visible}
        /\ \A k \in 1..Len(v.items) :
             v.items[k].isHidden => req.includeHidden
        /\ (/\ NamesOf(kids) = {N_b, N_a, N_hidden}
            /\ ~req.includeHidden) =>
             /\ v.pagination.total = 2
             /\ v.metadata.totalFiles = 2
             /\ v.metadata.totalDirectories = 0
             /\ v.metadata.totalSize = 15

\* the scenario [b 10B, a 5B, .h 1B], includeHidden=false, by size ascending
C8_Witness ==
  /\ Served
  /\ NamesOf(fs[P_d]) = {N_b, N_a, N_hidden}
  /\ fs[P_d][1].name = N_b
  /\ ~req.includeHidden
  /\ req.sortBy = "size"
  /\ req.sortOrder = "asc"
  /\ req.page = 1
  /\ NamesOf(outcome.value.items) = {N_a, N_b}
  /\ outcome.value.items[1].name = N_a
  /\ outcome.value.metadata.totalSize = 15

\* the key of x is not greater than the key of y
KeyLeq(x, y, sortBy) ==
  CASE sortBy = "name"     -> LocaleCompare(x.name, y.name) <= 0
    [] sortBy = "size"     -> x.size <= y.size
    [] sortBy = "modified" -> GetTime(x.modifiedDate) <= GetTime(y.modifiedDate)
    [] sortBy = "type"     -> x.type = y.type
                              \/ (x.type = "directory" /\ y.type = "file")

\* C9: the filtered entries are in the order of the requested key before
\* they are sliced: over the pages put one after the other, every two
\* neighbours x, y have key(x) <= key(y) for asc and key(x) >= key(y) for
\* desc, across page boundaries too.
C9_SortedByKey ==
  Served =>
    LET all == PagesFrom(fs, req, 1)
    IN  \A i \in 1..(Len(all) - 1) :
          IF req.sortOrder = "asc"
          THEN KeyLeq(all[i], all[i + 1], req.sortBy)
          ELSE KeyLeq(all[i + 1], all[i], req.sortBy)

\* a second page of a listing by size, largest first, whose sizes differ
C9_Witness ==
  /\ Served
  /\ req.sortBy = "size"
  /\ req.sortOrder = "desc"
  /\ req.page = 2
  /\ outcome.value.pagination.totalPages >= 2
  /\ outcome.value.items # <<>>
  /\ \E i, j \in 1..Len(fs[P_d]) : fs[P_d][i].size < fs[P_d][j].size

\* C10: for the same entries, the sequence by name ascending and the
\* sequence by name descending are reverses of each other, up to the order
\* among entries whose names compare equal.
C10_NameAscDescReverse ==
  (Served /\ req.sortBy = "name") =>
    LET mine     == PagesFrom(fs, req, 1)
        opposite == IF req.sortOrder = "asc" THEN "desc" ELSE "asc"
        other    == ListDirectory(fs, [DefaultRequest(req.path) EXCEPT
                                         !.includeHidden = req.includeHidden,
                                         !.sortOrder = opposite],
                                  clock).value.items
        n        == Len(mine)
    IN  /\ Len(other) = n
        /\ {mine[i] : i \in 1..n} = {other[i] : i \in 1..n}
        /\ \A i \in 1..n :
             LocaleCompare(mine[i].name, other[n + 1 - i].name) = 0

\* a listing by name of a directory with two names that compare equal and
\* one that does not
C10_Witness ==
  /\ Served
  /\ req.sortBy = "name"
  /\ req.sortOrder = "desc"
  /\ req.includeHidden
  /\ {N_eNFC, N_eNFD, N_a} \subseteq NamesOf(fs[P_d])
  /\ outcome.value.pagination.total = 3

\* the position of the entry called name in what readdir enumerated
EnumerationIndex(names, name) ==
  CHOOSE k \in 1..Len(names) : names[k] = name

\* C11: the sort is stable: two listed entries whose keys compare equal under
\* the requested sortBy stand, in the concatenation of the pages, in the
\* order in which readdir enumerated them, for asc and for desc.
C11_StableSort ==
  Served =>
    LET all   == PagesFrom(fs, req, 1)
        names == Readdir(fs, Resolve(req.path))
    IN  \A i \in 1..Len(all) : \A j \in (i + 1)..Len(all) :
          Comparison(all[i], all[j], req.sortBy) = 0 =>
            EnumerationIndex(names, all[i].name)
              < EnumerationIndex(names, all[j].name)

\* a descending listing returned two entries of equal modification time
C11_Witness ==
  /\ Served
  /\ req.sortBy = "modified"
  /\ req.sortOrder = "desc"
  /\ Len(outcome.value.items) = 2
  /\ outcome.value.items[1].modifiedDate = outcome.value.items[2].modifiedDate
  /\ outcome.value.items[1].name # outcome.value.items[2].name

\* a listDirectory call has ended and the caller holds what its previous
\* call with the same parameters returned
Repeated == pc = "done" /\ op = "list" /\ last # NoCall /\ last.req = req

\* a returned value with its scan timestamp blanked
WithoutScanTime(v) == [v EXCEPT !.metadata.scannedAt = EmptyString]

\* C12 as stated: the second of two consecutive listDirectory calls with the
\* same parameters on an unchanged directory returns a value equal to the
\* first in every field, the scan timestamp included.
C12_IdenticalResults ==
  Repeated => outcome = last.outcome

\* C12: the second of two consecutive listDirectory calls with the same
\* parameters on an unchanged directory returns a value equal to the first
\* in path, items, pagination, totalFiles, totalDirectories and totalSize,
\* whatever order the per-entry callbacks completed in; metadata.scannedAt
\* is the time of each call, that of the second not before that of the first.
C12_IdenticalButScanTime ==
  Repeated =>
    /\ outcome.kind = "ok"
    /\ last.outcome.kind = "ok"
    /\ WithoutScanTime(outcome.value) = WithoutScanTime(last.outcome.value)
    /\ GetTime(last.outcome.value.metadata.scannedAt)
         <= GetTime(outcome.value.metadata.scannedAt)

\* a repeated call returned two or more items later than the first call
C12_Witness ==
  /\ Repeated
  /\ outcome.kind = "ok"
  /\ Len(outcome.value.items) >= 2
  /\ outcome.value.metadata.scannedAt # last.outcome.value.metadata.scannedAt

\* C13: a page whose start index (page-1)*limit is at or past the number of
\* filtered entries is served, not refused: items is empty, and total,
\* totalPages and the three aggregates are those of all filtered entries.
C13_PageBeyondEnd ==
  (pc = "done" /\ op = "list") =>
    LET kids    == fs[Resolve(req.path)]
        visible == {i \in 1..Len(kids) : req.includeHidden \/ kids[i].name[1] # "."}
        files   == {i \in visible : ~kids[i].isDir}
        n       == Cardinality(visible)
    IN  (req.page - 1) * req.limit >= n =>
          /\ outcome.kind = "ok"
          /\ outcome.value.items = <<>>
          /\ outcome.value.pagination.total = n
          /\ outcome.value.pagination.totalPages * req.limit >= n
          /\ outcome.value.pagination.totalPages * req.limit < n + req.limit
          /\ outcome.value.metadata.totalFiles = Cardinality(files)
          /\ outcome.value.metadata.totalDirectories = Cardinality(visible \ files)
          /\ outcome.value.metadata.totalSize = SumNodeSizes(kids, files)

\* page 3 of pages of 2 was asked of a directory of three visible entries,
\* a subdirectory among them
C13_Witness ==
  /\ Served
  /\ req.page = 3
  /\ req.limit = 2
  /\ outcome.value.pagination.total = 3
  /\ outcome.value.metadata.totalDirectories = 1
  /\ outcome.value.items = <<>>

\* C14: in every value listDirectory returns (limit >= 1), totalPages is
\* ceil(total/limit), the least number of pages of limit entries that hold
\* total entries, 0 when total is 0; hasNext is page < totalPages;
\* hasPrevious is page > 1, also past the last page.  For three entries
\* sorted by name, limit=1 and page=2 give the second entry alone, hasNext,
\* hasPrevious and totalPages=3.
C14_PaginationFields ==
  Served =>
    LET v       == outcome.value
        g       == v.pagination
        kids    == fs[Resolve(req.path)]
        visible == {i \in 1..Len(kids) : req.includeHidden \/ kids[i].name[1] # "."}
    IN  /\ g.page = req.page
        /\ g.limit = req.limit
        /\ g.total = Cardinality(visible)
        /\ g.totalPages >= 0
        /\ g.totalPages * g.limit >= g.total
        /\ g.totalPages * g.limit < g.total + g.limit
        /\ (g.total = 0 => g.totalPages = 0)
        /\ (g.hasNext <=> g.page < g.totalPages)
        /\ (g.hasPrevious <=> g.page > 1)
        /\ (/\ NamesOf(kids) = {N_a, N_b, N_eNFC}
            /\ req.sortBy = "name" /\ req.sortOrder = "asc"
            /\ req.limit = 1 /\ req.page = 2) =>
             /\ Len(v.items) = 1
             /\ v.items[1].name = N_b
             /\ g.hasNext
             /\ g.hasPrevious
             /\ g.totalPages = 3

\* the scenario: limit=1, page=2 over three entries enumerated out of order
C14_Witness ==
  /\ Served
  /\ NamesOf(fs[P_d]) = {N_a, N_b, N_eNFC}
  /\ fs[P_d][1].name = N_eNFC
  /\ req.sortBy = "name" /\ req.sortOrder = "asc"
  /\ req.limit = 1 /\ req.page = 2
  /\ outcome.value.pagination.hasNext

\* a GET /list request has been answered
ListAnswered == op = "list" /\ pc \in {"done", "rejected"}

\* limit brought into 1..1000
Clamped(limit) == Max(1, Min(limit, 1000))

\* C15 as stated: the page size is clamped to 1..1000 before use: a request
\* whose limit is 0, negative or above 1000 is served as with the nearest
\* limit in 1..1000, which is the limit reported in pagination.limit.
C15_LimitClamped ==
  (ListAnswered /\ ListQueryErrors(req.path, req.page, Clamped(req.limit)) = <<>>) =>
    /\ pc = "done"
    /\ outcome.kind = "ok" => outcome.value.pagination.limit = Clamped(req.limit)

\* C15: a request whose limit is not in 1..1000 is answered 400 'Validation
\* failed' by the controller and listDirectory is not called for it; a
\* limit in 1..1000 is used as given, so every limit used for slicing and
\* reported in pagination.limit is in 1..1000 and a page has at most limit
\* items.
C15_LimitValidated ==
  ListAnswered =>
    /\ req.limit \notin 1..1000 =>
         /\ pc = "rejected"
         /\ outcome = NoOutcome
         /\ fsCalls = EmptyBag
         /\ HttpResponse.status = 400
         /\ HttpResponse.body.error = "Validation failed"
         /\ \E k \in 1..Len(HttpResponse.body.details) :
              HttpResponse.body.details[k] = "Limit must be between 1 and 1000"
    /\ (pc = "done" /\ outcome.kind = "ok") =>
         /\ req.limit \in 1..1000
         /\ outcome.value.pagination.limit = req.limit
         /\ Len(outcome.value.items) <= req.limit
         /\ HttpResponse.body.data.pagination.limit = req.limit

\* a request for /d with limit 1001 was refused
C15_Witness ==
  /\ ListAnswered
  /\ req.path = RP_d
  /\ req.page = 1
  /\ req.limit = 1001
  /\ pc = "rejected"
  /\ HttpResponse.body.details = <<"Limit must be between 1 and 1000">>

\* listDirectory or getDirectoryMetadata has been called
ServiceCalled == pc \in {"access", "stat", "readdir", "resolve", "done"}

\* the error is the InvalidInput of validatePath
IsInvalidInput(o) ==
  o.kind = "error" /\ o.statusCode = 400 /\ o.message = "Invalid path length"

\* C16: validatePath fails with InvalidInput (400) exactly for the raw paths
\* that are empty or longer than 4096 characters, a path of 4096 characters
\* is not refused for its length, and the refusal comes first: nothing of
\* the filesystem has been touched, and a too long path that also holds
\* '..' and a restricted path gets 400, not 403.
C16_LengthCheck ==
  ServiceCalled =>
    IF Len(req.path) = 0 \/ Len(req.path) > 4096
    THEN /\ pc = "done"
         /\ IsInvalidInput(outcome)
         /\ fsCalls = EmptyBag
    ELSE ~IsInvalidInput(outcome)

\* the path of more than 4096 characters that starts with '../etc/passwd'
\* was refused
C16_Witness ==
  /\ pc = "done"
  /\ op = "list"
  /\ req.path = RP_longEscape
  /\ Includes(Normalize(req.path), DotDot)
  /\ IsRestricted(Normalize(req.path))
  /\ outcome.statusCode = 400

\* C17: a path whose normalized, lower-cased form contains an entry of the
\* deny-list is refused with AccessDenied (403) by listDirectory and by
\* getDirectoryMetadata, and no restricted path is ever the target of an
\* access, stat or readdir call.  Stated for the requests whose raw path is
\* of valid length and has no '..' in it.
C17_DeniedNeverTouched ==
  (/\ ServiceCalled
   /\ Len(req.path) \in 1..MAX_PATH_LENGTH
   /\ ~Includes(req.path, DotDot)) =>
    /\ IsRestricted(Normalize(req.path)) =>
         /\ pc = "done"
         /\ outcome = CreateError("Access to this path is restricted", 403)
    /\ \A call \in BagToSet(fsCalls) : ~IsRestricted(call[2])

\* C18: when the stat of the validated path shows something that is not a
\* directory, listDirectory fails with NotADirectory (400) and has made no
\* readdir call and no stat call other than that of the path itself.
C18_NotADirectory ==
  (pc = "done" /\ op = "list" /\ pathStats.exists /\ ~pathStats.isDir) =>
    /\ outcome = CreateError("Path is not a directory", 400)
    /\ BagIn(FsAccess(Normalize(req.path), "R_OK"), fsCalls)
    /\ \A call \in BagToSet(fsCalls) :
         /\ call[1] # "readdir"
         /\ call[1] = "stat" => call[2] = resolvedPath
    /\ fileNames = <<>>
    /\ results = <<>>

\* listDirectory was called for the regular file /f
C18_Witness ==
  /\ pc = "done"
  /\ op = "list"
  /\ req.path = RP_file
  /\ pathStats.exists /\ ~pathStats.isDir /\ pathStats.readable
  /\ BagIn(FsCall("stat", RP_file), fsCalls)
  /\ outcome.kind = "error"

\* s ends with suffix
EndsWith(s, suffix) ==
  /\ Len(s) >= Len(suffix)
  /\ SubSeq(s, Len(s) - Len(suffix) + 1, Len(s)) = suffix

\* C19: every item of a returned listing has type 'file' or 'directory',
\* 'directory' exactly when the entry is a directory; a directory has size 0
\* and extension '' whatever size its stat reports and whatever its name; a
\* file has its stat size and the lower-cased extension of its name; and
\* totalSize is the sum of the stat sizes of the listed files alone.
C19_DirectoryEntries ==
  Served =>
    LET v       == outcome.value
        kids    == fs[Resolve(req.path)]
        visible == {i \in 1..Len(kids) : req.includeHidden \/ kids[i].name[1] # "."}
        files   == {i \in visible : ~kids[i].isDir}
    IN  /\ \A k \in 1..Len(v.items) :
             LET item == v.items[k]
                 node == Lookup(fs, item.path)
             IN  /\ node.exists
                 /\ item.type \in {"file", "directory"}
                 /\ item.type = "directory" <=> node.isDir
                 /\ item.type = "directory" =>
                      item.size = 0 /\ item.extension = <<>>
                 /\ item.type = "file" =>
                      /\ item.size = node.size
                      /\ \/ item.extension = <<>>
                         \/ /\ item.extension[1] = "."
                            /\ EndsWith(ToLowerCase(item.name), item.extension)
                      /\ item.name = N_b => item.extension = <<".", "t">>
        /\ v.metadata.totalSize = SumNodeSizes(kids, files)

\* a listing returned a directory whose stat size is not 0 and whose name
\* has a '.' in it, next to a file with an extension
C19_Witness ==
  /\ Served
  /\ \E k \in 1..Len(outcome.value.items) :
       /\ outcome.value.items[k].type = "directory"
       /\ outcome.value.items[k].name = N_sub
       /\ Lookup(fs, outcome.value.items[k].path).size > 0
  /\ \E k \in 1..Len(outcome.value.items) :
       /\ outcome.value.items[k].type = "file"
       /\ outcome.value.items[k].extension # <<>>
  /\ outcome.value.metadata.totalSize > 0

\* a request has been answered
Answered == pc \in {"done", "rejected"}

\* C20: the response to a listing or metadata request has one status, which
\* is 200 exactly when the service returned a value and then comes with
\* success and data and without an error; InvalidInput and NotADirectory
\* are answered 400, PathTraversal and AccessDenied 403, NotFound 404, an
\* error without a status code (a failed stat or readdir) 500, a failed
\* validation of the query 400; the metadata probe of a missing path is
\* answered 200 with exists=false.
C20_StatusMapping ==
  Answered =>
    LET r == HttpResponse IN
    /\ r.status \in {200, 400, 403, 404, 500}
    /\ r.status = 200 <=> (pc = "done" /\ outcome.kind = "ok")
    /\ r.status = 200 =>
         /\ DOMAIN r.body = {"success", "data"}
         /\ r.body.success
         /\ r.body.data = outcome.value
    /\ r.status # 200 =>
         /\ "error" \in DOMAIN r.body
         /\ "success" \notin DOMAIN r.body
         /\ "data" \notin DOMAIN r.body
    /\ pc = "rejected" => r.status = 400
    /\ (pc = "done" /\ outcome.kind = "error") =>
         /\ outcome.message \in {"Invalid path length", "Path is not a directory"}
              => r.status = 400
         /\ outcome.message \in {"Path traversal not allowed",
                                  "Access to this path is restricted"}
              => r.status = 403
         /\ outcome.message = "Path does not exist or is not readable"
              => r.status = 404 /\ op = "list"
         /\ outcome.statusCode = NoStatus => r.status = 500
         /\ (Len(req.path) = 0 \/ Len(req.path) > MAX_PATH_LENGTH) => r.status = 400
         /\ (pathStats.exists /\ ~pathStats.isDir) => r.status = 400
    /\ (pc = "done" /\ op = "meta" /\ outcome.kind = "ok") =>
         (~outcome.value.exists => r.body.data.exists = FALSE)

\* /d was deleted between the read-access probe and the stat of a listing
\* request: the stat failed and the answer is 500
C20_Witness ==
  /\ pc = "done"
  /\ op = "list"
  /\ req.path = RP_d
  /\ BagIn(FsCall("stat", P_d), fsCalls)
  /\ outcome = RawFsError
  /\ HttpResponse.status = 500

----------------------------------------------------------------------------
(* C21 - C30 *)

\* the request in hand is answered with status 500
InternalFailure ==
  /\ pc = "done"
  /\ outcome.kind = "error"
  /\ HttpResponse.status = 500

\* C21 (as claimed): a 500 response carries only the generic message and no
\* stack when NODE_ENV is 'production', and the message of the error and the
\* stack in every other configuration
C21_DetailOutsideProduction ==
  InternalFailure =>
    IF nodeEnv = "production"
    THEN /\ HttpResponse.body.error.message = "Internal server error"
         /\ ~HttpResponse.body.error.stack
    ELSE /\ HttpResponse.body.error.message = outcome.message
         /\ HttpResponse.body.error.stack

\* C21 (amended): a 500 response carries the generic message exactly when
\* NODE_ENV is 'production' and the message of the error otherwise; it
\* carries the stack exactly when NODE_ENV is 'development'
C21_DetailByEnvironment ==
  InternalFailure =>
    /\ HttpResponse.body.error.message =
         (IF nodeEnv = "production" THEN "Internal server error"
          ELSE outcome.message)
    /\ HttpResponse.body.error.stack = (nodeEnv = "development")
    /\ nodeEnv = "production" =>
         HttpResponse.body.error.message # outcome.message

\* a 500 response of a server that runs neither in production nor in
\* development: /d was deleted between the read-access probe and the stat
C21_Witness ==
  /\ InternalFailure
  /\ nodeEnv = "test"
  /\ op = "meta"
  /\ req.path = RP_d
  /\ HttpResponse.body.error.message = "ENOENT"
  /\ ~HttpResponse.body.error.stack

\* getDirectoryMetadata has returned or thrown
MetaAnswered ==
  /\ pc = "done"
  /\ op = "meta"

\* the indices of the regular files of kids that have a name in names
FilesAmong(kids, names) ==
  { i \in 1..Len(kids) : ~kids[i].isDir /\ kids[i].name \in names }

\* C22: getDirectoryMetadata of the existing readable directory /d returns
\* exists=true, isDirectory=true, totalItems = the number of names readdir
\* returned (hidden ones and ones whose stat fails included) and totalSize =
\* the sizes of the children that stat as regular files: every regular file
\* still there counts, no directory and no deleted child adds anything, and
\* the call never fails; with nothing deleted that is 4 items and 16 bytes.
\* For the existing regular file /f totalItems and totalSize are 0.
C22_MetadataCounts ==
  /\ (MetaAnswered /\ resolvedPath = P_d) =>
       /\ outcome.kind = "ok"
       /\ LET v     == outcome.value
              names == { fileNames[i] : i \in 1..Len(fileNames) }
          IN  /\ v.exists
              /\ v.isDirectory
              /\ v.totalItems = Len(fileNames)
              /\ v.totalSize >= SumNodeSizes(fs[P_d], FilesAmong(fs[P_d], names))
              /\ v.totalSize <= SumNodeSizes(ScenarioDir,
                                             FilesAmong(ScenarioDir, names))
              /\ removals = 0 => (v.totalItems = 4 /\ v.totalSize = 16)
  /\ (MetaAnswered /\ resolvedPath = RP_file) =>
       /\ outcome.kind = "ok"
       /\ outcome.value.exists
       /\ ~outcome.value.isDirectory
       /\ outcome.value.totalItems = 0
       /\ outcome.value.totalSize = 0

\* the metadata of /d when b.T (10 bytes) was deleted after readdir: four
\* items, and 6 bytes for a and .h
C22_Witness ==
  /\ MetaAnswered
  /\ resolvedPath = P_d
  /\ outcome.kind = "ok"
  /\ Len(fs[P_d]) = 3
  /\ outcome.value.totalItems = 4
  /\ outcome.value.totalSize = 6

RECURSIVE Copies(_, _)
\* how many calls of the set S the bag log holds
Copies(log, S) ==
  IF S = {} THEN 0
  ELSE LET c == CHOOSE c \in S : TRUE
       IN  CopiesIn(c, log) + Copies(log, S \ {c})

\* how many times the function fn of fs was called with path
TimesCalled(log, fn, path) ==
  Copies(log, { c \in BagToSet(log) : c[1] = fn /\ c[2] = path })

\* a step of listDirectory in which the stat of the listing path or the
\* readdir fails (the path is no longer there): the call ends there with the
\* error of that call and no value, and the failed call was made once
ListingFailsAsWhole ==
  (/\ op = "list"
   /\ pc \in {"stat", "readdir"}
   /\ pc' # pc
   /\ ~Stat(fs, resolvedPath).exists) =>
     /\ pc' = "done"
     /\ outcome' = RawFsError
     /\ "value" \notin DOMAIN outcome'
     /\ CopiesIn(FsCall(pc, resolvedPath), fsCalls') = 1

\* C23 (as claimed): when the stat of the listing path or the readdir fails
\* after validation, listDirectory fails as a whole, and access, stat and
\* readdir are each called at most once per path in one listDirectory call
C23_OncePerPath ==
  [][ /\ ListingFailsAsWhole
      /\ op' = "list" =>
           \A c \in BagToSet(fsCalls') :
              TimesCalled(fsCalls', c[1], c[2]) <= 1 ]_vars

\* C23 (amended): when the stat of the listing path or the readdir fails
\* after validation, listDirectory fails as a whole; stat and readdir are
\* called at most once per path and access at most once per path and mode:
\* an entry whose stat succeeded is probed with R_OK, W_OK and X_OK, three
\* access calls on its path, and no call is made again after it failed
C23_OncePerPathAndMode ==
  [][ /\ ListingFailsAsWhole
      /\ op' = "list" =>
           \A c \in BagToSet(fsCalls') :
              /\ CopiesIn(c, fsCalls') = 1
              /\ TimesCalled(fsCalls', c[1], c[2]) =
                   (IF c[1] = "access" /\ c[2] # Normalize(req'.path)
                    THEN 3 ELSE 1) ]_vars

\* listDirectory('/d') has thrown the error of readdir: /d was deleted after
\* its stat
C23_Witness ==
  /\ pc = "done"
  /\ op = "list"
  /\ outcome = RawFsError
  /\ TimesCalled(fsCalls, "access", RP_d) = 1
  /\ TimesCalled(fsCalls, "stat", RP_d) = 1
  /\ TimesCalled(fsCalls, "readdir", RP_d) = 1

\* C24: the per-entry callbacks of one listDirectory call complete in any
\* order; nothing is sorted, counted or sliced while one of them is pending,
\* and on an unchanged directory the value returned has the items, total,
\* pagination and aggregates of the listing made in enumeration order,
\* whatever the order of completion was.
C24_CompletionOrderIrrelevant ==
  /\ pc = "resolve" => outcome = NoOutcome
  /\ (pc = "done" /\ op = "list") =>
       /\ outcome.kind = "ok"
       /\ Len(results) = Len(fs[resolvedPath])
       /\ \A i \in 1..Len(results) : results[i] # Pending
       /\ WithoutScanTime(outcome.value)
            = WithoutScanTime(ListDirectory(fs, req, 0).value)

\* listDirectory('/d') has returned after its four callbacks completed, the
\* sorted page starting with an entry that is not the first one enumerated
C24_Witness ==
  /\ pc = "done"
  /\ op = "list"
  /\ outcome.kind = "ok"
  /\ Len(results) = 4
  /\ \A i \in 1..4 : results[i] # Pending
  /\ Len(outcome.value.items) = 2
  /\ outcome.value.items[1].name # fileNames[1]

\* C25: getDirectoryMetadata never fails because the path is absent: the
\* only errors it throws are the refusals of the Path Guard (400, 403); a
\* path that is not there when it is examined, by the read-access probe or
\* by the stat that follows it, gives the exists=false descriptor with
\* zero-valued fields.
C25_AbsentNeverFails ==
  MetaAnswered =>
    /\ outcome.kind = "error" => outcome.statusCode \in {400, 403}
    /\ (outcome.kind = "ok" /\ ~outcome.value.exists) =>
         outcome.value = AbsentMetadata(resolvedPath)
    /\ req.path = RP_missing => outcome = Ok(AbsentMetadata(RP_missing))

\* C26: the path of every value listDirectory or getDirectoryMetadata
\* returns is the absolute path that was enumerated, has no '..' segment
\* and, lower-cased, contains no deny-list entry, also for a relative input,
\* which is checked as given and resolved against the working directory.
C26_ReturnedPathValidated ==
  (pc = "done" /\ outcome.kind = "ok") =>
    LET returned == outcome.value.path
        segs     == Split(returned)
    IN  /\ returned = resolvedPath
        /\ IsAbsolute(returned)
        /\ \A i \in 1..Len(segs) : segs[i] # DotDot
        /\ ~IsRestricted(returned)

\* a filesystem in which none of the paths asked for exists
EmptyFs == (P_root :> <<>>)

\* C27: the Path Guard tests the length, then the traversal, then the
\* deny-list, then read access, and the first test that fails decides the
\* error.  A path refused by one of the first three is answered without any
\* filesystem call, and with the same error on a filesystem where it exists
\* as on one where nothing exists, by listDirectory and getDirectoryMetadata
\* alike; any other path is probed for read access.
C27_GuardOrder ==
  pc = "done" =>
    LET badLength == Len(req.path) = 0 \/ Len(req.path) > MAX_PATH_LENGTH
        traversal == Includes(Normalize(req.path), DotDot)
        denied    == IsRestricted(Normalize(req.path))
        expected  == IF badLength
                     THEN CreateError("Invalid path length", 400)
                     ELSE IF traversal
                     THEN CreateError("Path traversal not allowed", 403)
                     ELSE CreateError("Access to this path is restricted", 403)
    IN  IF badLength \/ traversal \/ denied
        THEN /\ outcome = expected
             /\ fsCalls = EmptyBag
             /\ ValidatePath(fs, req.path) = expected
             /\ ValidatePath(EmptyFs, req.path) = expected
        ELSE /\ CopiesIn(FsAccess(Normalize(req.path), "R_OK"), fsCalls) >= 1
             /\ outcome # expected
             /\ outcome.kind = "error" =>
                  outcome.message \notin {"Invalid path length",
                                          "Path traversal not allowed",
                                          "Access to this path is restricted"}

\* '../etc/passwd' fails the traversal test and would fail the deny-list
\* test; getDirectoryMetadata has thrown the traversal error for it without
\* a filesystem call
C27_Witness ==
  /\ pc = "done"
  /\ op = "meta"
  /\ req.path = RP_escapePasswd
  /\ IsRestricted(Normalize(req.path))
  /\ outcome = CreateError("Path traversal not allowed", 403)
  /\ fsCalls = EmptyBag

\* the requests of the browser that have not been answered
InFlight == { i \in 1..Len(requests) : requests[i].status = "pending" }

\* C28: loading$ of the browser-side DirectoryService is true exactly while
\* at least one getDirectoryListing request is in flight.
C28_LoadingWhileInFlight ==
  loadingSubject = (InFlight # {})

\* C29: when two or more listing requests were sent and all have succeeded,
\* the data shown and the current path of the component and of the service
\* are those of the request sent last, in whichever order the answers came.
C29_LastRequestWins ==
  (/\ Len(requests) >= 2
   /\ \A i \in 1..Len(requests) : requests[i].status = "ok") =>
     LET sentLast == requests[Len(requests)]
     IN  /\ directoryData # NoData
         /\ directoryData.path = sentLast.path
         /\ directoryData.pagination.page = sentLast.page
         /\ currentPath = sentLast.path
         /\ currentPathSubject = sentLast.path

\* C30: a failed request leaves currentPath, currentPage and directoryData
\* of the component as they were before it was made, so whenever no request
\* is in flight the current path of the component is that of the service
\* and of the directory shown.
C30_StateUnchangedOnError ==
  (InFlight = {} /\ directoryData # NoData) =>
    /\ currentPath = currentPathSubject
    /\ directoryData.path = currentPath

====
